---- MODULE Spec2Model ----
(***************************************************************************)
(* Model of the WhatsApp OTP gateway.                                      *)
(*                                                                         *)
(*  - Spec        : the dispatch pipeline, POST /api/send-otp, in its two  *)
(*                  iterations (the monolithic server of part_003 and the  *)
(*                  router of routes/otp.js), run by NumReq concurrent     *)
(*                  requests against one Log collection.                   *)
(*  - SessionSpec : the session manager of services/whatsapp.js.           *)
(*                                                                         *)
(* Every await of the JavaScript code is a point where another callback    *)
(* may run, so each action is the code between two awaits.                 *)
(***************************************************************************)
EXTENDS Integers, Sequences, FiniteSets, TLC

\* ------------------------------------------------------------------ bounds
NumReq == 2
MaxDaily == 2
MaxPrior == 1
MaxLive == 2
MaxTimers == 1
MaxPending == 1
MaxLeaked == 1
MaxPad == 16
NumSavers == 2
MaxSaves == 2
NumWriters == 3
NumCalls == 3

Reqs == 1..NumReq

\* ------------------------------------------------------- program constants
MAX_RETRY_ATTEMPTS == 3
MAX_RECONNECT_ATTEMPTS == 5
MESSAGE_TIMEOUT == 30000
MaxMessageLength == 1000
MinPhoneDigits == 10
MaxPhoneDigits == 15
LocalPhoneDigits == 12
FastSend == 120
RECONNECT_DELAY == 5000
MAX_HISTORY == 1000

VARIABLES
    \* ---- dispatch pipeline
    req,          \* per request: position in the handler and its inputs
    doc,          \* per request: the in-memory mongoose document `log`
    logs,         \* the Log collection: the persisted record of each request
    resp,         \* per request: HTTP status sent (0: none yet)
    hist,         \* per request: history (sends, status changes, inserts, faults)
    settings,     \* the Settings row
    priorLogs,    \* today's records of earlier requests
    isConnected,  \* module variable isConnected
    \* ---- session manager (services/whatsapp.js)
    sock,              \* 0: null, -1: a socket object that has closed, i: live link i
    links,             \* the sockets made by makeWASocket that have not closed
    qrCodeData,        \* TRUE: a QR data URL is held
    phoneNumber,       \* TRUE: a phone number is held
    isInitializing,
    isInitialized,
    reconnectAttempts,
    timers,            \* pending setTimeout callbacks of scheduleReconnect
    initTimers,        \* pending setTimeout callbacks of initializeWhatsApp's catch
    auth,              \* the auth_info directory: none, fresh, paired
    qrPending,         \* connection.update handlers awaiting QRCode.toDataURL
    clearPending,      \* the clearAuthAndRestart call awaiting fs.promises.rm, by
                       \* the close reason that started it (none when there is none)
    initPc,            \* the running initializeWhatsApp: idle, auth, logout
    op,                \* the running operator operation and its await
    capReached,        \* history: the reconnect cap was hit, no operator action since
    quiet,             \* history: disconnect() succeeded, no operator action since
    ret,               \* what the call that returned in the last step returned
                       \* (none when no modelled call returned)
    \* ---- session manager of the monolithic server (part_003), which shares
    \* sock, links, qrCodeData, phoneNumber, isConnected, isInitializing,
    \* timers, initTimers, auth, qrPending, initPc and op with the one above
    retryCount,
    qrCodeTimer,       \* null, armed (the handle of a pending timer), fired
    qrLeaked,          \* pending QR timers whose handle was overwritten
    \* ---- status broadcast (services/whatsapp.js 12, 19-38)
    io,                \* TRUE: a Socket.IO instance is attached
    emitted,           \* the last 'whatsapp-status' snapshot that was broadcast
    \* ---- functions and stores modelled on their own
    fmt,               \* a phone number on its way from the request to the JID
    backoff,           \* a reconnect delay being computed
    historyFile,       \* login_history.json: the stored entries, newest first
    saver,             \* the saveLoginHistory calls
    rows,              \* the Settings collection: the api_key of each of its rows
    writer,            \* the handlers that find or create the Settings row
    race               \* the sendWhatsAppMessage calls and their races

dispatchVars == <<req, doc, logs, resp, hist, settings, priorLogs>>
monoVars == <<retryCount, qrCodeTimer, qrLeaked>>
sideVars == <<io, fmt, backoff, historyFile, saver, rows, writer, race>>
sessVars == <<sock, links, qrCodeData, phoneNumber, isInitializing, isInitialized,
              reconnectAttempts, timers, initTimers, auth, qrPending, clearPending,
              initPc, op, capReached, quiet, ret, monoVars, sideVars, emitted>>
sessVarsButRet == <<sock, links, qrCodeData, phoneNumber, isInitializing,
                    isInitialized, reconnectAttempts, timers, initTimers, auth,
                    qrPending, clearPending, initPc, op, capReached, quiet,
                    monoVars>>
vars == <<req, doc, logs, resp, hist, settings, priorLogs, isConnected, sock, links,
          qrCodeData, phoneNumber, isInitializing, isInitialized, reconnectAttempts,
          timers, initTimers, auth, qrPending, clearPending, initPc, op,
          capReached, quiet, ret, retryCount, qrCodeTimer, qrLeaked, io, emitted,
          fmt, backoff, historyFile, saver, rows, writer, race>>

\* ---------------------------------------------------------- pure helpers
Digits == {"0", "1", "2", "3", "4", "5", "6", "7", "8", "9"}

IsDigit(c) == c \in Digits

\* phone.replace(/\D/g, '')
StripNonDigits(s) == SelectSeq(s, IsDigit)

StartsWith(s, p) == Len(s) >= Len(p) /\ SubSeq(s, 1, Len(p)) = p

\* a normalization that accepts any number of digits
formatPhoneNumberAnyLength(phone) == [ok |-> TRUE, v |-> StripNonDigits(phone)]

\* a normalization that drops a leading zero without adding the country code
formatPhoneNumberDropZero(phone) ==
    LET cleaned == StripNonDigits(phone) IN
    IF Len(cleaned) < MinPhoneDigits \/ Len(cleaned) > MaxPhoneDigits
    THEN [ok |-> FALSE, v |-> <<>>]
    ELSE IF ~StartsWith(cleaned, <<"6", "2">>) /\ Len(cleaned) <= LocalPhoneDigits
         THEN IF StartsWith(cleaned, <<"0">>)
              THEN [ok |-> TRUE, v |-> SubSeq(cleaned, 2, Len(cleaned))]
              ELSE [ok |-> TRUE, v |-> <<"6", "2">> \o cleaned]
         ELSE [ok |-> TRUE, v |-> cleaned]

\* part_003 formatPhoneNumber: ok = FALSE stands for the thrown Error
formatPhoneNumber(phone) ==
    LET cleaned == StripNonDigits(phone) IN
    IF Len(cleaned) < MinPhoneDigits \/ Len(cleaned) > MaxPhoneDigits
    THEN [ok |-> FALSE, v |-> <<>>]
    ELSE IF ~StartsWith(cleaned, <<"6", "2">>) /\ Len(cleaned) <= LocalPhoneDigits
         THEN IF StartsWith(cleaned, <<"0">>)
              THEN [ok |-> TRUE, v |-> <<"6", "2">> \o SubSeq(cleaned, 2, Len(cleaned))]
              ELSE [ok |-> TRUE, v |-> <<"6", "2">> \o cleaned]
         ELSE [ok |-> TRUE, v |-> cleaned]

\* utils/helpers formatPhoneNumber (part_004): strips, never throws
helpersFormatPhoneNumber(phone) == StripNonDigits(phone)

\* utils/helpers isValidPhoneNumber (part_004)
isValidPhoneNumber(phone) ==
    LET cleaned == StripNonDigits(phone) IN
    Len(cleaned) >= MinPhoneDigits /\ Len(cleaned) <= MaxPhoneDigits

\* part_003 validateApiKey: crypto.timingSafeEqual throws a RangeError when the
\* two buffers differ in byte length.
validateApiKey(providedKey, storedKey) ==
    IF providedKey = <<>> \/ storedKey = <<>> THEN "false"
    ELSE IF Len(providedKey) # Len(storedKey) THEN "throw"
    ELSE IF providedKey = storedKey THEN "true" ELSE "false"

\* middleware/auth validateApiKey (part_002): settings.api_key !== api_key
keysDiffer(providedKey, storedKey) == providedKey # storedKey

\* ------------------------------------------------------------- the inputs
StoredKey == <<"s", "k">>
ApiKeys == {<<>>, <<"s", "k">>, <<"s", "x">>, <<"s">>}

PhoneLocal == <<"0", "8", "1", "2", "-", "3", "4", "5", "6", "7", "8", "9", "0">>
PhoneShort == <<"0", "8", "1", "2", "3">>
Phones == {<<>>, PhoneShort, PhoneLocal}

MessageLengths == {0, 1, MaxMessageLength + 1}

Handlers == {"api", "route"}

Statuses == {"pending", "success", "failed"}

NoDoc == [status |-> "none", retry_count |-> 0, error_message |-> "null",
          delivery_time |-> 0]

NoLog == [exists |-> FALSE, status |-> "none", retry_count |-> 0,
          error_message |-> "null", delivery_time |-> 0, phone |-> <<>>]

NoHist == [sent |-> 0, trans |-> 0, created |-> 0, fault |-> FALSE,
           pendingSaved |-> FALSE, admitted |-> FALSE, rate |-> "none",
           allTimeout |-> TRUE, nc |-> FALSE, hook |-> "none"]

IdleReq == [pc |-> "idle", handler |-> "api", api_key |-> <<>>, phone |-> <<>>,
            msgLen |-> 0, attempt |-> 0, formattedPhone |-> <<>>,
            lastError |-> "null", success |-> FALSE, code |-> 0]

\* ------------------------------------------------------------ the store
\* Log.countDocuments({created_at: today, status: {$in: ['success','pending']}})
TodayCount(allLogs, prior) ==
    prior.counted
    + Cardinality({r \in Reqs : allLogs[r].exists
                                /\ allLogs[r].status \in {"success", "pending"}})

\* a rate check that fails closed: a throwing query or a missing Settings
\* row denies
checkRateLimitFailClosed(up, st, allLogs, prior) ==
    IF ~up THEN FALSE
    ELSE IF ~st.exists THEN FALSE
    ELSE TodayCount(allLogs, prior) < st.max_daily_messages

checkRateLimitLeq(up, st, allLogs, prior) ==
    IF ~up THEN TRUE
    ELSE IF ~st.exists THEN TRUE
    ELSE TodayCount(allLogs, prior) <= st.max_daily_messages

\* part_003 checkRateLimit; up = FALSE: a query throws, the catch returns true
checkRateLimit(up, st, allLogs, prior) ==
    IF ~up THEN TRUE
    ELSE IF ~st.exists THEN TRUE
    ELSE TodayCount(allLogs, prior) < st.max_daily_messages

\* LogSchema validation run by save(): retry_count has max MAX_RETRY_ATTEMPTS
SchemaValid(d) == d.retry_count >= 0 /\ d.retry_count <= MAX_RETRY_ATTEMPTS

\* the record a successful log.save() leaves in the collection
Saved(d, phone) ==
    [exists |-> TRUE, status |-> d.status, retry_count |-> d.retry_count,
     error_message |-> d.error_message, delivery_time |-> d.delivery_time,
     phone |-> phone]

\* history kept beside a successful log.save()
SavedHist(h, old, d) ==
    [h EXCEPT !.created = IF old.exists THEN @ ELSE @ + 1,
              !.trans = IF old.exists /\ old.status # d.status THEN @ + 1 ELSE @,
              !.pendingSaved = @ \/ (~old.exists /\ d.status = "pending")]

\* ------------------------------------------------------- dispatch: steps
\* a handler that ends without sending its response
RespondSilently(r, q, code) ==
    /\ req' = [req EXCEPT ![r] = [q EXCEPT !.pc = "done"]]
    /\ UNCHANGED resp

\* res.status(code).json(...): the response is sent and the handler ends
Respond(r, q, code) ==
    /\ req' = [req EXCEPT ![r] = [q EXCEPT !.pc = "done"]]
    /\ resp' = [resp EXCEPT ![r] = code]

\* a failed attempt that leaves retry_count as it was
FailAttemptUncounted(q, d, err, t) ==
    IF q.attempt < MAX_RETRY_ATTEMPTS
    THEN [q |-> [q EXCEPT !.pc = "sleep", !.lastError = err, !.success = FALSE],
          d |-> d]
    ELSE [q |-> [q EXCEPT !.pc = "saveFinal", !.lastError = err,
                          !.success = FALSE, !.code = 500],
          d |-> [d EXCEPT !.status = "failed", !.error_message = err,
                          !.delivery_time = t]]

\* part_003 926-939: a failed attempt; after the last one the loop ends and
\* the document is given its final values
FailAttempt(q, d, err, t) ==
    LET d1 == [d EXCEPT !.retry_count = q.attempt + 1] IN
    IF q.attempt < MAX_RETRY_ATTEMPTS
    THEN [q |-> [q EXCEPT !.pc = "sleep", !.lastError = err, !.success = FALSE],
          d |-> d1]
    ELSE [q |-> [q EXCEPT !.pc = "saveFinal", !.lastError = err,
                          !.success = FALSE, !.code = 500],
          d |-> [d1 EXCEPT !.status = "failed", !.error_message = err,
                           !.delivery_time = t]]

\* part_003 920 with 484-498: the synchronous start of sendWhatsAppMessage.
\* sent = TRUE: sock.sendMessage has been invoked and the race is pending.
StartAttempt(q, d, connected) ==
    IF ~connected
    THEN [sent |-> FALSE]
         @@ FailAttempt(q, d, "WhatsApp not connected or session not initialized", 0)
    ELSE IF ~formatPhoneNumber(q.formattedPhone).ok
    THEN [sent |-> FALSE] @@ FailAttempt(q, d, "Invalid phone number format", 0)
    ELSE [sent |-> TRUE, q |-> [q EXCEPT !.pc = "sending"], d |-> d]

\* POST /send-otp arrives: the synchronous prefix of the handler
Submit(r) ==
    /\ req[r].pc = "idle"
    /\ \E h \in Handlers, k \in ApiKeys, p \in Phones, m \in MessageLengths :
         LET q == [req[r] EXCEPT !.handler = h, !.api_key = k, !.phone = p,
                                 !.msgLen = m]
         IN  IF h = "api"
             THEN IF p = <<>> \/ m = 0 \/ k = <<>>
                  THEN Respond(r, q, 400)
                  ELSE /\ req' = [req EXCEPT ![r] = [q EXCEPT !.pc = "auth"]]
                       /\ UNCHANGED resp
             ELSE IF p = <<>> \/ m = 0 \/ ~isValidPhoneNumber(p)
                     \/ m > MaxMessageLength
                  THEN Respond(r, q, 400)
                  ELSE IF k = <<>>
                  THEN Respond(r, q, 401)
                  ELSE /\ req' = [req EXCEPT ![r] = [q EXCEPT !.pc = "auth"]]
                       /\ UNCHANGED resp
    /\ UNCHANGED <<doc, logs, hist, settings, priorLogs, isConnected, sessVars>>

\* part_003 859-862: Settings.findOne() returned, the key is compared
ApiAuth(r) == \E storeUp \in BOOLEAN :
    LET q == req[r] IN
    /\ q.pc = "auth" /\ q.handler = "api"
    /\ IF ~storeUp
       THEN /\ Respond(r, q, 500)
            /\ hist' = [hist EXCEPT ![r].fault = TRUE]
       ELSE /\ UNCHANGED hist
            /\ IF ~settings.exists THEN Respond(r, q, 401)
               ELSE LET v == validateApiKey(q.api_key, settings.api_key) IN
                    IF v = "throw" THEN Respond(r, q, 500)
                    ELSE IF v = "false" THEN Respond(r, q, 401)
                    ELSE /\ req' = [req EXCEPT ![r].pc = "rate"]
                         /\ UNCHANGED resp
    /\ UNCHANGED <<doc, logs, settings, priorLogs, isConnected, sessVars>>

\* middleware/auth validateApiKey (part_002 40-57), then routes/otp.js 14-25
RouteAuth(r) == \E storeUp \in BOOLEAN :
    LET q == req[r] IN
    /\ q.pc = "auth" /\ q.handler = "route"
    /\ IF ~storeUp
       THEN /\ Respond(r, q, 500)
            /\ hist' = [hist EXCEPT ![r].fault = TRUE]
            /\ UNCHANGED doc
       ELSE IF ~settings.exists \/ keysDiffer(q.api_key, settings.api_key)
       THEN /\ Respond(r, q, 401)
            /\ UNCHANGED <<hist, doc>>
       ELSE /\ req' = [req EXCEPT ![r] =
                         [q EXCEPT !.pc = "savePending",
                                   !.formattedPhone = helpersFormatPhoneNumber(q.phone)]]
            /\ doc' = [doc EXCEPT ![r] = [NoDoc EXCEPT !.status = "pending"]]
            /\ hist' = [hist EXCEPT ![r].admitted = TRUE]
            /\ UNCHANGED resp
    /\ UNCHANGED <<logs, settings, priorLogs, isConnected, sessVars>>

\* the same step with the phone and the message validated before the quota
\* is looked at
RateCheckValidatesFirst(r) == \E storeUp \in BOOLEAN :
    LET q == req[r]
        ok == checkRateLimit(storeUp, settings, logs, priorLogs)
        f == formatPhoneNumber(q.phone)
        h == [hist[r] EXCEPT !.fault = @ \/ ~storeUp,
                             !.rate = IF ~storeUp THEN "error"
                                      ELSE IF ok THEN "allow" ELSE "deny"]
    IN
    /\ q.pc = "rate"
    /\ IF ~f.ok \/ q.msgLen > MaxMessageLength
       THEN /\ Respond(r, q, 400)
            /\ hist' = [hist EXCEPT ![r] = h]
            /\ UNCHANGED doc
       ELSE IF ~ok
       THEN /\ Respond(r, q, 429)
            /\ hist' = [hist EXCEPT ![r] = h]
            /\ UNCHANGED doc
       ELSE /\ req' = [req EXCEPT ![r] = [q EXCEPT !.pc = "savePending",
                                                   !.formattedPhone = f.v]]
            /\ doc' = [doc EXCEPT ![r] = [NoDoc EXCEPT !.status = "pending"]]
            /\ hist' = [hist EXCEPT ![r] = [h EXCEPT !.admitted = TRUE]]
            /\ UNCHANGED resp
    /\ UNCHANGED <<logs, settings, priorLogs, isConnected, sessVars>>

\* part_003 865-896: checkRateLimit() returned; phone and message validation;
\* new Log({... status: 'pending'}) and the call of log.save()
RateCheck(r) == \E storeUp \in BOOLEAN :
    LET q == req[r]
        ok == checkRateLimit(storeUp, settings, logs, priorLogs)
        f == formatPhoneNumber(q.phone)
        h == [hist[r] EXCEPT !.fault = @ \/ ~storeUp,
                             !.rate = IF ~storeUp THEN "error"
                                      ELSE IF ok THEN "allow" ELSE "deny"]
    IN
    /\ q.pc = "rate"
    /\ IF ~ok
       THEN /\ Respond(r, q, 429)
            /\ hist' = [hist EXCEPT ![r] = h]
            /\ UNCHANGED doc
       ELSE IF ~f.ok \/ q.msgLen > MaxMessageLength
       THEN /\ Respond(r, q, 400)
            /\ hist' = [hist EXCEPT ![r] = h]
            /\ UNCHANGED doc
       ELSE /\ req' = [req EXCEPT ![r] = [q EXCEPT !.pc = "savePending",
                                                   !.formattedPhone = f.v]]
            /\ doc' = [doc EXCEPT ![r] = [NoDoc EXCEPT !.status = "pending"]]
            /\ hist' = [hist EXCEPT ![r] = [h EXCEPT !.admitted = TRUE]]
            /\ UNCHANGED resp
    /\ UNCHANGED <<logs, settings, priorLogs, isConnected, sessVars>>

\* the catch handler of part_003 968-977 up to its log.save()
CatchWithLog(q, d, err) ==
    [q |-> [q EXCEPT !.pc = "saveCatch", !.code = 500],
     d |-> [d EXCEPT !.status = "failed", !.error_message = err]]

\* a pending save whose failure is swallowed: the handler goes on to the send
SavePendingUnchecked(r) == \E storeUp \in BOOLEAN :
    LET q == req[r]
        d == doc[r]
        a == StartAttempt(q, d, TRUE)
    IN
    /\ q.pc = "savePending"
    /\ logs' = IF storeUp THEN [logs EXCEPT ![r] = Saved(d, q.formattedPhone)] ELSE logs
    /\ req' = [req EXCEPT ![r] = a.q]
    /\ doc' = [doc EXCEPT ![r] = a.d]
    /\ hist' = [hist EXCEPT ![r] =
                  [(IF storeUp THEN SavedHist(@, logs[r], d) ELSE @) EXCEPT
                      !.sent = IF a.sent THEN @ + 1 ELSE @]]
    /\ UNCHANGED <<resp, settings, priorLogs, isConnected, sessVars>>

\* the first log.save() settles (part_003 896, routes/otp.js 25) and the
\* handler runs on to its next await
SavePending(r) == \E storeUp \in BOOLEAN :
    LET q == req[r]
        d == doc[r]
    IN
    /\ q.pc = "savePending"
    /\ IF storeUp
       THEN /\ logs' = [logs EXCEPT ![r] = Saved(d, q.formattedPhone)]
            /\ IF q.handler = "api"
               THEN IF ~isConnected
                    THEN \* part_003 899-903
                         /\ req' = [req EXCEPT ![r] = [q EXCEPT !.pc = "saveNC",
                                                                !.code = 503]]
                         /\ doc' = [doc EXCEPT ![r] =
                                      [d EXCEPT !.status = "failed",
                                                !.error_message = "WhatsApp not connected"]]
                         /\ hist' = [hist EXCEPT ![r] =
                                       [SavedHist(@, logs[r], d) EXCEPT !.nc = TRUE]]
                    ELSE LET a == StartAttempt(q, d, isConnected) IN
                         /\ req' = [req EXCEPT ![r] = a.q]
                         /\ doc' = [doc EXCEPT ![r] = a.d]
                         /\ hist' = [hist EXCEPT ![r] =
                                       [SavedHist(@, logs[r], d) EXCEPT
                                           !.sent = IF a.sent THEN @ + 1 ELSE @,
                                           !.allTimeout = @ /\ a.sent]]
               ELSE \* routes/otp.js 28 with services/whatsapp.js 315-322
                    IF ~isConnected
                    THEN /\ req' = [req EXCEPT ![r] =
                                      [q EXCEPT !.pc = "saveFinal", !.success = FALSE,
                                                !.lastError = "WhatsApp not connected",
                                                !.code = 200]]
                         /\ doc' = [doc EXCEPT ![r] =
                                      [d EXCEPT !.status = "failed",
                                                !.error_message = "WhatsApp not connected"]]
                         /\ hist' = [hist EXCEPT ![r] =
                                       [SavedHist(@, logs[r], d) EXCEPT !.nc = TRUE]]
                    ELSE /\ req' = [req EXCEPT ![r].pc = "sending"]
                         /\ hist' = [hist EXCEPT ![r] =
                                       [SavedHist(@, logs[r], d) EXCEPT !.sent = @ + 1]]
                         /\ UNCHANGED doc
            /\ UNCHANGED resp
       ELSE /\ hist' = [hist EXCEPT ![r].fault = TRUE]
            /\ UNCHANGED logs
            /\ IF q.handler = "api"
               THEN LET c == CatchWithLog(q, d, "store error") IN
                    /\ req' = [req EXCEPT ![r] = c.q]
                    /\ doc' = [doc EXCEPT ![r] = c.d]
                    /\ UNCHANGED resp
               ELSE \* routes/otp.js 55-58
                    /\ Respond(r, q, 500)
                    /\ UNCHANGED doc
    /\ UNCHANGED <<settings, priorLogs, isConnected, sessVars>>

SendOutcomes == {"ok", "error", "timeout"}

\* the race of part_003 503 settles (or routes' awaited sock.sendMessage)
SendSettle(r) ==
    LET q == req[r]
        d == doc[r]
    IN
    /\ q.pc = "sending"
    /\ \E o \in SendOutcomes :
         /\ q.handler = "route" => o # "timeout"
         /\ hist' = [hist EXCEPT ![r].allTimeout = @ /\ o = "timeout"]
         /\ IF o = "ok"
            THEN /\ req' = [req EXCEPT ![r] =
                              [q EXCEPT !.pc = "saveFinal", !.success = TRUE,
                                        !.code = 200]]
                 /\ doc' = [doc EXCEPT ![r] =
                              [d EXCEPT !.status = "success", !.error_message = "null",
                                        !.delivery_time =
                                            IF q.handler = "api" THEN FastSend ELSE @]]
            ELSE IF q.handler = "api"
            THEN LET a == FailAttempt(q, d,
                              IF o = "timeout" THEN "Message sending timeout"
                              ELSE "send failed",
                              IF o = "timeout" THEN MESSAGE_TIMEOUT ELSE FastSend)
                 IN  /\ req' = [req EXCEPT ![r] = a.q]
                     /\ doc' = [doc EXCEPT ![r] = a.d]
            ELSE /\ req' = [req EXCEPT ![r] =
                              [q EXCEPT !.pc = "saveFinal", !.success = FALSE,
                                        !.lastError = "send failed", !.code = 200]]
                 /\ doc' = [doc EXCEPT ![r] =
                              [d EXCEPT !.status = "failed",
                                        !.error_message = "send failed"]]
    /\ UNCHANGED <<logs, resp, settings, priorLogs, isConnected, sessVars>>

\* part_003 931 and the next turn of the loop
Sleep(r) ==
    LET q == [req[r] EXCEPT !.attempt = @ + 1]
        a == StartAttempt(q, doc[r], isConnected)
    IN
    /\ req[r].pc = "sleep"
    /\ req' = [req EXCEPT ![r] = a.q]
    /\ doc' = [doc EXCEPT ![r] = a.d]
    /\ hist' = [hist EXCEPT ![r].sent = IF a.sent THEN @ + 1 ELSE @,
                            ![r].allTimeout = @ /\ a.sent]
    /\ UNCHANGED <<logs, resp, settings, priorLogs, isConnected, sessVars>>

\* the terminal log.save() settles (part_003 940, routes/otp.js 34)
SaveFinal(r) == \E storeUp \in BOOLEAN :
    LET q == req[r]
        d == doc[r]
    IN
    /\ q.pc = "saveFinal"
    /\ IF storeUp /\ (q.handler = "api" => SchemaValid(d))
       THEN /\ logs' = [logs EXCEPT ![r] = Saved(d, q.formattedPhone)]
            /\ hist' = [hist EXCEPT ![r] = SavedHist(@, logs[r], d)]
            /\ req' = [req EXCEPT ![r].pc = "webhook"]
            /\ UNCHANGED <<doc, resp>>
       ELSE /\ hist' = [hist EXCEPT ![r].fault = @ \/ ~storeUp]
            /\ UNCHANGED logs
            /\ IF q.handler = "api"
               THEN LET c == CatchWithLog(q, d, IF storeUp THEN "validation failed"
                                                ELSE "store error")
                    IN  /\ req' = [req EXCEPT ![r] = c.q]
                        /\ doc' = [doc EXCEPT ![r] = c.d]
                        /\ UNCHANGED resp
               ELSE /\ Respond(r, q, 500)
                    /\ UNCHANGED doc
    /\ UNCHANGED <<settings, priorLogs, isConnected, sessVars>>

\* a not-connected branch that answers without saving the failed status
SaveNCSkipped(r) ==
    /\ req[r].pc = "saveNC"
    /\ req' = [req EXCEPT ![r].pc = "webhook"]
    /\ UNCHANGED <<doc, logs, hist, resp, settings, priorLogs, isConnected, sessVars>>

\* part_003 903: the log.save() of the not-connected branch settles
SaveNC(r) == \E storeUp \in BOOLEAN :
    LET q == req[r]
        d == doc[r]
    IN
    /\ q.pc = "saveNC"
    /\ IF storeUp
       THEN /\ logs' = [logs EXCEPT ![r] = Saved(d, q.formattedPhone)]
            /\ hist' = [hist EXCEPT ![r] = SavedHist(@, logs[r], d)]
            /\ req' = [req EXCEPT ![r].pc = "webhook"]
            /\ UNCHANGED doc
       ELSE LET c == CatchWithLog(q, d, "store error") IN
            /\ hist' = [hist EXCEPT ![r].fault = TRUE]
            /\ req' = [req EXCEPT ![r] = c.q]
            /\ doc' = [doc EXCEPT ![r] = c.d]
            /\ UNCHANGED logs
    /\ UNCHANGED <<resp, settings, priorLogs, isConnected, sessVars>>

\* part_003 977-988: the log.save() of the catch handler settles; when it
\* throws too the inner catch only logs and the 500 is sent
SaveCatch(r) == \E storeUp \in BOOLEAN :
    LET q == req[r]
        d == doc[r]
    IN
    /\ q.pc = "saveCatch"
    /\ IF storeUp /\ SchemaValid(d)
       THEN /\ logs' = [logs EXCEPT ![r] = Saved(d, q.formattedPhone)]
            /\ hist' = [hist EXCEPT ![r] = SavedHist(@, logs[r], d)]
            /\ req' = [req EXCEPT ![r].pc = "webhook"]
            /\ UNCHANGED resp
       ELSE /\ hist' = [hist EXCEPT ![r].fault = @ \/ ~storeUp]
            /\ Respond(r, q, 500)
            /\ UNCHANGED logs
    /\ UNCHANGED <<doc, settings, priorLogs, isConnected, sessVars>>

WebhookOutcomes == {"ok", "non2xx", "throws"}

\* a webhook notification whose thrown error reaches the handler's catch
WebhookSurfaced(r) ==
    LET q == req[r] IN
    /\ q.pc = "webhook"
    /\ \E o \in WebhookOutcomes :
         /\ Respond(r, q, IF o = "throws" THEN 500 ELSE q.code)
         /\ hist' = [hist EXCEPT ![r].hook = o]
    /\ UNCHANGED <<doc, logs, settings, priorLogs, isConnected, sessVars>>

\* the awaited webhook notification settles and the response is sent
\* (part_003 905-912, 943-966, 978-988; routes/otp.js 37-53)
Webhook(r) == \E storeUp \in BOOLEAN :
    LET q == req[r] IN
    /\ q.pc = "webhook"
    /\ \E o \in WebhookOutcomes :
         IF q.handler = "route" /\ ~storeUp
         THEN \* routes/otp.js 37: Settings.findOne() throws outside any inner try
              /\ Respond(r, q, 500)
              /\ hist' = [hist EXCEPT ![r].fault = TRUE]
         ELSE /\ Respond(r, q, q.code)
              /\ hist' = [hist EXCEPT ![r].hook = o]
    /\ UNCHANGED <<doc, logs, settings, priorLogs, isConnected, sessVars>>

\* the session manager's 'open' and 'close' handlers, seen from the pipeline
LinkFlip ==
    /\ isConnected' = ~isConnected
    /\ UNCHANGED <<dispatchVars, monoVars, sessVars>>

\* the status snapshot of a module that has just been loaded
FirstSnapshot == [connected |-> FALSE, phone_number |-> FALSE,
                  qr_available |-> FALSE, reconnect_attempts |-> 0]

\* no broadcast has been made and no Socket.IO instance is attached yet
EmitAtRest == io = FALSE /\ emitted = FirstSnapshot

\* no phone number is being normalized
NoFmt == [pc |-> "none", phone |-> <<>>, stored |-> <<>>, jid |-> <<>>, jidOk |-> FALSE]

FmtAtRest == fmt = NoFmt

\* no reconnect delay is being computed
NoBackoff == [pc |-> "none", variant |-> "none", reason |-> "none", first |-> 0,
              later |-> 0, firstDelay |-> 0, laterDelay |-> 0]

BackoffAtRest == backoff = NoBackoff

Savers == 1..NumSavers

\* no saveLoginHistory call has been made by this caller
IdleSaver == [pc |-> "idle", entry |-> 0, local |-> <<>>, calls |-> 0,
              saved |-> {}, overlapped |-> FALSE, readAtCap |-> FALSE]

HistoryAtRest == historyFile = <<>> /\ saver = [c \in Savers |-> IdleSaver]

Writers == 1..NumWriters

\* the handler has not been entered
\* api keys: the one of the row of an earlier run, the one sent in request
\* bodies, and otherwise the number of the caller that generated it
DeployedKey == 0
BodyKey == NumWriters + 1
NoKey == -1

IdleWriter == [pc |-> "idle", kind |-> "none", key |-> NoKey, found |-> NoKey]

SettingsAtRest == rows = {DeployedKey} /\ writer = [w \in Writers |-> IdleWriter]

Calls == 1..NumCalls

\* sendWhatsAppMessage has not been called
IdleCall == [pc |-> "idle", send |-> "none", timer |-> "unset", result |-> "none",
             first |-> "none"]

RaceAtRest == race = [c \in Calls |-> IdleCall]

\* nothing is attached, no call is in flight, the stores are as deployed
SideAtRest ==
    /\ EmitAtRest
    /\ FmtAtRest
    /\ BackoffAtRest
    /\ HistoryAtRest
    /\ SettingsAtRest
    /\ RaceAtRest

\* the session manager's module state as the module is loaded
\* (services/whatsapp.js 6-13), isConnected apart
SessionAtRest ==
    /\ sock = 0
    /\ links = [i \in 1..MaxLive |-> "free"]
    /\ qrCodeData = FALSE
    /\ phoneNumber = FALSE
    /\ isInitializing = FALSE
    /\ isInitialized = FALSE
    /\ reconnectAttempts = 0
    /\ timers = 0
    /\ initTimers = 0
    /\ auth \in {"none", "paired"}
    /\ qrPending = 0
    /\ clearPending = "none"
    /\ initPc = "idle"
    /\ op = "none"
    /\ capReached = FALSE
    /\ quiet = FALSE
    /\ ret = "none"
    /\ retryCount = 0
    /\ qrCodeTimer = "null"
    /\ qrLeaked = 0

\* the server with no request in the pipeline and the session manager as
\* loaded
ServerAtRest ==
    /\ SessionAtRest
    /\ auth = "none"
    /\ isConnected = FALSE
    /\ req = [r \in Reqs |-> IdleReq]
    /\ doc = [r \in Reqs |-> NoDoc]
    /\ logs = [r \in Reqs |-> NoLog]
    /\ resp = [r \in Reqs |-> 0]
    /\ hist = [r \in Reqs |-> NoHist]
    /\ settings = [exists |-> TRUE, api_key |-> StoredKey, max_daily_messages |-> 1]
    /\ priorLogs = [counted |-> 0]

Init ==
    /\ SessionAtRest
    /\ SideAtRest
    /\ auth = "none"
    /\ req = [r \in Reqs |-> IdleReq]
    /\ doc = [r \in Reqs |-> NoDoc]
    /\ logs = [r \in Reqs |-> NoLog]
    /\ resp = [r \in Reqs |-> 0]
    /\ hist = [r \in Reqs |-> NoHist]
    /\ \E e \in BOOLEAN, m \in 1..MaxDaily :
         settings = [exists |-> e, api_key |-> StoredKey, max_daily_messages |-> m]
    /\ \E c \in 0..MaxPrior : priorLogs = [counted |-> c]
    /\ isConnected \in BOOLEAN

Next ==
    \/ \E r \in Reqs : Submit(r)
    \/ \E r \in Reqs : ApiAuth(r)
    \/ \E r \in Reqs : RouteAuth(r)
    \/ \E r \in Reqs : RateCheck(r)
    \/ \E r \in Reqs : SavePending(r)
    \/ \E r \in Reqs : SendSettle(r)
    \/ \E r \in Reqs : Sleep(r)
    \/ \E r \in Reqs : SaveFinal(r)
    \/ \E r \in Reqs : SaveNC(r)
    \/ \E r \in Reqs : SaveCatch(r)
    \/ \E r \in Reqs : Webhook(r)
    \/ LinkFlip

Spec == Init /\ [][Next]_vars

\* ------------------------------------------------------------------------
\* Claims about the dispatch pipeline (checked under Spec)
\* ------------------------------------------------------------------------
Ended(r) == resp[r] # 0

Terminal(st) == st \in {"success", "failed"}

\* C1: every admitted request, once answered and with the store reachable
\* throughout, has exactly one record, created pending, whose persisted status
\* changed exactly once, to success or to failed.
C1_StatusSettledOnce ==
    \A r \in Reqs :
        (Ended(r) /\ hist[r].admitted /\ ~hist[r].fault)
            => /\ hist[r].created = 1
               /\ hist[r].pendingSaved
               /\ hist[r].trans = 1
               /\ Terminal(logs[r].status)

\* C2: when the response of an admitted request is sent and no store
\* operation of the request failed, the persisted record is terminal.
C2_TerminalAtResponse ==
    \A r \in Reqs :
        (Ended(r) /\ hist[r].admitted /\ ~hist[r].fault)
            => (logs[r].exists /\ logs[r].status # "pending")

\* C3: a request of the monolithic handler whose every attempt was sent and
\* timed out ends with the persisted record failed and retry_count at the
\* retry ceiling.
C3_AllTimeoutsFailAtCeiling ==
    \A r \in Reqs :
        (Ended(r) /\ req[r].handler = "api" /\ hist[r].sent > 0
            /\ hist[r].allTimeout /\ ~hist[r].fault)
            => /\ logs[r].status = "failed"
               /\ logs[r].retry_count = MAX_RETRY_ATTEMPTS

\* C4: a request with phone, message and a non-empty api_key that differs from
\* the stored key is answered 401 and leaves no record.
C4_WrongKeyIs401 ==
    \A r \in Reqs :
        (Ended(r) /\ req[r].handler = "api" /\ settings.exists /\ ~hist[r].fault
            /\ req[r].phone # <<>> /\ req[r].msgLen > 0
            /\ req[r].api_key # <<>> /\ req[r].api_key # settings.api_key)
            => (resp[r] = 401 /\ ~logs[r].exists)

\* today's records that are not failed (success or pending), as the Audit
\* Store holds them
QuotaUsed ==
    priorLogs.counted
    + Cardinality({x \in Reqs : logs[x].exists /\ logs[x].status # "failed"})

RateStep(r) == req[r].pc = "rate" /\ req'[r].pc # "rate"

\* C5: when the quota queries succeed, the rate-limit step rejects with 429
\* exactly when today's success+pending count is at or above
\* max_daily_messages; a 429 leaves no record of the request.
C5_QuotaDecision ==
    /\ [][\A r \in Reqs :
            (RateStep(r) /\ hist'[r].rate # "error")
                => ((resp'[r] = 429)
                        <=> (QuotaUsed >= settings.max_daily_messages))]_vars
    /\ [](\A r \in Reqs : resp[r] = 429 => (~logs[r].exists /\ hist[r].created = 0))

C5_Witness ==
    \E r \in Reqs :
        /\ resp[r] = 429 /\ hist[r].rate = "deny" /\ ~logs[r].exists
        /\ QuotaUsed >= settings.max_daily_messages

\* C10: sock.sendMessage has been invoked for a request only if the request's
\* record was first saved with status pending; a request whose pending save
\* failed never sends.
C10_SendAfterPendingSaved ==
    \A r \in Reqs :
        /\ hist[r].sent > 0 => (hist[r].pendingSaved /\ logs[r].exists)
        /\ req[r].pc = "sending" => logs[r].exists

C10_Witness ==
    \E r \in Reqs :
        /\ req[r].pc = "sending" /\ hist[r].sent = 1
        /\ logs[r].exists /\ logs[r].status = "pending"

\* C11: a request of the monolithic handler that found the session not
\* connected when its pending record had been saved, and none of whose store
\* operations failed, is answered 503 with its record failed, error
\* 'WhatsApp not connected', retry_count 0, and no send was attempted.
C11_NotConnectedIs503 ==
    \A r \in Reqs :
        /\ (req[r].handler = "api" /\ hist[r].nc) => hist[r].sent = 0
        /\ (Ended(r) /\ req[r].handler = "api" /\ hist[r].nc /\ ~hist[r].fault)
              => /\ resp[r] = 503
                 /\ logs[r].exists
                 /\ logs[r].status = "failed"
                 /\ logs[r].error_message = "WhatsApp not connected"
                 /\ logs[r].retry_count = 0

C11_Witness ==
    \E r \in Reqs :
        /\ resp[r] = 503 /\ req[r].handler = "api" /\ hist[r].nc /\ ~hist[r].fault
        /\ logs[r].status = "failed" /\ hist[r].sent = 0

\* the awaited webhook notification of request r settles in this step
WebhookStep(r) == req[r].pc = "webhook" /\ hist'[r].hook # "none"

\* C12: whichever way the webhook POST ends (2xx, non-2xx, thrown error or
\* timeout), the response sent is the one the handler had prepared before the
\* POST, and the persisted records and the document are left as they were.
C12_WebhookOutcomeIgnored ==
    [][\A r \in Reqs :
         WebhookStep(r) => /\ resp'[r] = req[r].code
                           /\ logs' = logs
                           /\ doc' = doc]_vars

C12_Witness ==
    \E r \in Reqs :
        /\ hist[r].hook = "throws" /\ resp[r] = 200
        /\ logs[r].status = "success"

\* C14: a request of the monolithic handler whose send succeeded after k
\* failed attempts, none of its store operations failing, is answered 200 and
\* both the document the response is built from and the persisted record
\* have status success, retry_count k and the elapsed time of the succeeding
\* attempt as delivery_time.
C14_SuccessAfterRetries ==
    \A r \in Reqs :
        (Ended(r) /\ req[r].handler = "api" /\ req[r].success /\ ~hist[r].fault)
            => /\ resp[r] = 200
               /\ req[r].attempt \in 0..MAX_RETRY_ATTEMPTS
               /\ doc[r].status = "success"
               /\ doc[r].retry_count = req[r].attempt
               /\ doc[r].delivery_time = FastSend
               /\ logs[r].exists
               /\ logs[r].status = "success"
               /\ logs[r].retry_count = req[r].attempt
               /\ logs[r].delivery_time = FastSend
               /\ logs[r].error_message = "null"

C14_Witness ==
    \E r \in Reqs :
        /\ resp[r] = 200 /\ req[r].handler = "api" /\ req[r].success
        /\ req[r].attempt = 2 /\ logs[r].retry_count = 2 /\ hist[r].sent = 3

\* the request's phone does not reduce to 10-15 digits or its message is
\* longer than the cap
BadInput(r) ==
    \/ Len(StripNonDigits(req[r].phone)) < MinPhoneDigits
    \/ Len(StripNonDigits(req[r].phone)) > MaxPhoneDigits
    \/ req[r].msgLen > MaxMessageLength

\* the request carries the stored key and none of its store operations failed
Authentic(r) ==
    settings.exists /\ req[r].api_key = settings.api_key /\ ~hist[r].fault

C13_ResponseBeforeWebhook ==
    \A r \in Reqs : req[r].pc = "webhook" => Ended(r)

\* ------------------------------------------------------------------------
\* Session manager (services/whatsapp.js)
\* ------------------------------------------------------------------------
Links == 1..MaxLive

CloseReasons == {"loggedOut", "badSession", "restartRequired", "streamError515",
                 "transient"}

CredLoss == {"loggedOut", "badSession"}

\* a socket made by makeWASocket that has neither closed nor been logged out
Live(i) == links[i] \in {"connecting", "pairing", "linked"}

\* sock && sock.ws && sock.ws.readyState === sock.ws.OPEN
WsOpen(s) == s > 0 /\ links[s] \in {"pairing", "linked", "loggingOut"}

HasFreeSlot == \E i \in Links : links[i] = "free"

FreeSlot == CHOOSE i \in Links :
                links[i] = "free" /\ \A j \in Links : links[j] = "free" => i <= j

CanSchedule == timers + initTimers < MaxTimers

\* scheduleReconnect: at the cap the counter is reset and no timer is set
scheduleReconnect(att, tm) ==
    IF att >= MAX_RECONNECT_ATTEMPTS
    THEN [att |-> 0, tm |-> tm, cap |-> TRUE]
    ELSE [att |-> att, tm |-> tm + 1, cap |-> FALSE]

\* the guards of initializeWhatsApp (47-55)
CanInit(initing, conn) == ~initing /\ ~conn

\* a start of initializeWhatsApp that ignores both guards
InitCallUnguarded(initing, conn) == [initing |-> TRUE, pc |-> "auth"]

\* the synchronous start of initializeWhatsApp (45-62)
InitCall(initing, conn) ==
    IF CanInit(initing, conn)
    THEN [initing |-> TRUE, pc |-> "auth"]
    ELSE [initing |-> initing, pc |-> initPc]

\* sock.logout() is called on socket s: when it works the socket ends with
\* reason loggedOut
LoggedOut(s, works) ==
    IF works /\ s > 0 /\ links[s] # "free"
    THEN [links EXCEPT ![s] = "loggingOut"]
    ELSE links

\* an awaited initializeWhatsApp() returned to refreshQR / forceReconnect
Released(o) == IF o \in {"rInit", "fInit"} THEN "none" ELSE o

\* what refreshQR / forceReconnect return when their awaited
\* initializeWhatsApp() comes back: success, whatever it returned (378, 433)
Returned(o) == IF o = "rInit" THEN "refreshOk"
               ELSE IF o = "fInit" THEN "forceOk" ELSE "none"

\* the fields of a 'whatsapp-status' broadcast that getStatus() reports too
Snapshot(c, p, q, a) ==
    [connected |-> c, phone_number |-> p, qr_available |-> q,
     reconnect_attempts |-> a]

\* getStatus() (405-415)
getStatus == Snapshot(isConnected, phoneNumber, qrCodeData, reconnectAttempts)

\* emitWhatsAppStatus() (19-30) called when the four fields have the given
\* values: the last broadcast afterwards; nothing is sent while io is unset
emitWhatsAppStatus(c, p, q, a) ==
    IF io THEN Snapshot(c, p, q, a) ELSE emitted

\* POST /api/whatsapp/initialize (routes/whatsapp.js 11)
OpInitialize ==
    LET c == InitCall(isInitializing, isConnected) IN
    /\ isInitializing' = c.initing
    /\ initPc' = c.pc
    /\ quiet' = FALSE
    /\ capReached' = FALSE
    /\ ret' = IF CanInit(isInitializing, isConnected) THEN "none" ELSE "initSkipped"
    /\ UNCHANGED <<dispatchVars, monoVars, sideVars, emitted, isConnected, sock, links, qrCodeData, phoneNumber,
                   isInitialized, reconnectAttempts, timers, initTimers, auth,
                   qrPending, clearPending, op>>

\* makeWASocket and the rest of the try block (75-104), then finally (132)
MakeSocket ==
    /\ HasFreeSlot
    /\ sock' = FreeSlot
    /\ links' = [links EXCEPT ![FreeSlot] = "connecting"]
    /\ isInitialized' = TRUE
    /\ isInitializing' = FALSE
    /\ initPc' = "idle"
    /\ op' = Released(op)
    /\ ret' = Returned(op)

\* useMultiFileAuthState settles (62): the catch block (106-130) when it
\* throws, else the cleanup of an open socket (65-72) or makeWASocket
InitAuthDone ==
    /\ initPc = "auth"
    /\ \E throws \in BOOLEAN, works \in BOOLEAN :
         IF throws
         THEN /\ isConnected' = FALSE
              /\ phoneNumber' = FALSE
              /\ qrCodeData' = FALSE
              /\ emitted' = emitWhatsAppStatus(FALSE, FALSE, FALSE, reconnectAttempts)
              /\ IF reconnectAttempts < MAX_RECONNECT_ATTEMPTS
                 THEN /\ CanSchedule
                      /\ reconnectAttempts' = reconnectAttempts + 1
                      /\ initTimers' = initTimers + 1
                      /\ UNCHANGED capReached
                 ELSE /\ reconnectAttempts' = 0
                      /\ capReached' = TRUE
                      /\ UNCHANGED initTimers
              /\ isInitializing' = FALSE
              /\ initPc' = "idle"
              /\ op' = Released(op)
              /\ ret' = Returned(op)
              /\ UNCHANGED <<sock, links, isInitialized, auth>>
         ELSE /\ auth' = IF auth = "none" THEN "fresh" ELSE auth
              /\ UNCHANGED <<isConnected, phoneNumber, qrCodeData, reconnectAttempts,
                             initTimers, capReached, emitted>>
              /\ IF WsOpen(sock)
                 THEN /\ links' = LoggedOut(sock, works)
                      /\ initPc' = "logout"
                      /\ ret' = "none"
                      /\ UNCHANGED <<sock, isInitialized, isInitializing, op>>
                 ELSE MakeSocket
    /\ UNCHANGED <<dispatchVars, monoVars, sideVars, timers, qrPending, clearPending, quiet>>

\* the awaited sock.logout() of initializeWhatsApp settles (67-71)
InitLogoutDone ==
    /\ initPc = "logout"
    /\ MakeSocket
    /\ UNCHANGED <<dispatchVars, monoVars, sideVars, emitted, isConnected, qrCodeData, phoneNumber,
                   reconnectAttempts, timers, initTimers, auth, qrPending,
                   clearPending, capReached, quiet>>

\* the web socket of a link opens; handleConnectionUpdate only logs (254-256)
LinkWsOpen(i) ==
    /\ links[i] = "connecting"
    /\ links' = [links EXCEPT ![i] = "pairing"]
    /\ ret' = "none"
    /\ UNCHANGED <<dispatchVars, monoVars, sideVars, emitted, isConnected, sock, qrCodeData, phoneNumber,
                   isInitializing, isInitialized, reconnectAttempts, timers,
                   initTimers, auth, qrPending, clearPending, initPc, op,
                   capReached, quiet>>

\* a pairing code is issued: handleConnectionUpdate awaits QRCode.toDataURL (145-146)
LinkQr(i) ==
    /\ links[i] = "pairing"
    /\ qrPending < MaxPending
    /\ qrPending' = qrPending + 1
    /\ ret' = "none"
    /\ UNCHANGED <<dispatchVars, monoVars, sideVars, emitted, isConnected, sock, links, qrCodeData, phoneNumber,
                   isInitializing, isInitialized, reconnectAttempts, timers,
                   initTimers, auth, clearPending, initPc, op,
                   capReached, quiet>>

\* QRCode.toDataURL settles: qrCodeData is assigned (146-149)
QrRendered ==
    /\ qrPending > 0
    /\ qrPending' = qrPending - 1
    /\ qrCodeData' = TRUE
    /\ emitted' = emitWhatsAppStatus(isConnected, phoneNumber, TRUE, reconnectAttempts)
    /\ ret' = "none"
    /\ UNCHANGED <<dispatchVars, monoVars, sideVars, isConnected, sock, links, phoneNumber,
                   isInitializing, isInitialized, reconnectAttempts, timers,
                   initTimers, auth, clearPending, initPc, op,
                   capReached, quiet>>

\* connection === 'open' (201-210); with sock null, sock.user throws after
\* isConnected was set
LinkOpen(i) ==
    /\ links[i] = "pairing"
    /\ links' = [links EXCEPT ![i] = "linked"]
    /\ isConnected' = TRUE
    /\ auth' = IF auth = "none" THEN "none" ELSE "paired"
    /\ capReached' = FALSE
    /\ IF sock = 0
       THEN UNCHANGED <<phoneNumber, qrCodeData, reconnectAttempts, emitted>>
       ELSE /\ IF sock > 0
               THEN phoneNumber' = (links'[sock] = "linked")
               ELSE phoneNumber' \in BOOLEAN
            /\ qrCodeData' = FALSE
            /\ reconnectAttempts' = 0
            /\ emitted' = emitWhatsAppStatus(TRUE, phoneNumber', FALSE, 0)
    /\ ret' = "none"
    /\ UNCHANGED <<dispatchVars, monoVars, sideVars, sock, isInitializing, isInitialized, timers,
                   initTimers, qrPending, clearPending, initPc, op,
                   quiet>>

\* connection === 'close' (158-200) up to the first await of clearAuthAndRestart
LinkClose(i) ==
    /\ links[i] # "free"
    /\ \E reason \in CloseReasons :
         LET clear == \/ reason \in CredLoss
                      \/ /\ reason = "streamError515"
                         /\ reconnectAttempts >= MAX_RECONNECT_ATTEMPTS \div 2
             s == scheduleReconnect(reconnectAttempts, timers)
         IN
         /\ links[i] = "loggingOut" => reason = "loggedOut"
         /\ IF clear /\ auth # "none"
            THEN /\ clearPending = "none"
                 /\ clearPending' = IF reason \in CredLoss THEN "credLoss"
                                                            ELSE "stream515"
                 /\ UNCHANGED <<reconnectAttempts, timers, capReached>>
            ELSE /\ s.tm > timers => CanSchedule
                 /\ reconnectAttempts' = s.att
                 /\ timers' = s.tm
                 /\ capReached' = (capReached \/ s.cap)
                 /\ UNCHANGED clearPending
    /\ links' = [links EXCEPT ![i] = "free"]
    /\ sock' = IF sock = i THEN -1 ELSE sock
    /\ isConnected' = FALSE
    /\ phoneNumber' = FALSE
    /\ qrCodeData' = FALSE
    /\ emitted' = emitWhatsAppStatus(FALSE, FALSE, FALSE, reconnectAttempts)
    /\ ret' = "none"
    /\ UNCHANGED <<dispatchVars, monoVars, sideVars, isInitializing, isInitialized, initTimers, auth,
                   qrPending, initPc, op, quiet>>

\* fs.promises.rm of clearAuthAndRestart settles, scheduleReconnect(2000)
\* (289-292); rm with force: true is taken to succeed
ClearAuthDone ==
    LET s == scheduleReconnect(reconnectAttempts, timers) IN
    /\ clearPending # "none"
    /\ s.tm > timers => CanSchedule
    /\ clearPending' = "none"
    /\ auth' = "none"
    /\ reconnectAttempts' = s.att
    /\ timers' = s.tm
    /\ capReached' = (capReached \/ s.cap)
    /\ ret' = "none"
    /\ UNCHANGED <<dispatchVars, monoVars, sideVars, emitted, isConnected, sock, links, qrCodeData, phoneNumber,
                   isInitializing, isInitialized, initTimers, qrPending, initPc, op,
                   quiet>>

\* a timer callback that reconnects without looking at the session
TimerFireUnguarded ==
    /\ timers > 0
    /\ timers' = timers - 1
    /\ reconnectAttempts' = reconnectAttempts + 1
    /\ isInitializing' = TRUE
    /\ initPc' = "auth"
    /\ ret' = "none"
    /\ UNCHANGED <<dispatchVars, monoVars, sideVars, emitted, isConnected, sock, links, qrCodeData, phoneNumber,
                   isInitialized, initTimers, auth, qrPending, clearPending, op, capReached, quiet>>

\* the callback of scheduleReconnect's setTimeout runs (272-279)
TimerFire ==
    /\ timers > 0
    /\ timers' = timers - 1
    /\ IF ~isInitializing /\ ~isConnected
       THEN LET c == InitCall(isInitializing, isConnected) IN
            /\ reconnectAttempts' = reconnectAttempts + 1
            /\ isInitializing' = c.initing
            /\ initPc' = c.pc
       ELSE UNCHANGED <<reconnectAttempts, isInitializing, initPc>>
    /\ ret' = IF ~isInitializing /\ ~isConnected THEN "none" ELSE "timerSkipped"
    /\ UNCHANGED <<dispatchVars, monoVars, sideVars, emitted, isConnected, sock, links, qrCodeData, phoneNumber,
                   isInitialized, initTimers, auth, qrPending, clearPending, op, capReached, quiet>>

\* the callback of the catch block's setTimeout runs (122-124)
InitTimerFire ==
    LET c == InitCall(isInitializing, isConnected) IN
    /\ initTimers > 0
    /\ initTimers' = initTimers - 1
    /\ isInitializing' = c.initing
    /\ initPc' = c.pc
    /\ ret' = IF CanInit(isInitializing, isConnected) THEN "none" ELSE "initSkipped"
    /\ UNCHANGED <<dispatchVars, monoVars, sideVars, emitted, isConnected, sock, links, qrCodeData, phoneNumber,
                   isInitialized, reconnectAttempts, timers, auth, qrPending,
                   clearPending, op, capReached, quiet>>

\* the tail of disconnect(): resetConnectionState and the resets (349-352);
\* att is the value of reconnectAttempts when resetConnectionState broadcasts
DisconnectFinish(att) ==
    /\ isConnected' = FALSE
    /\ phoneNumber' = FALSE
    /\ qrCodeData' = FALSE
    /\ emitted' = emitWhatsAppStatus(FALSE, FALSE, FALSE, att)
    /\ isInitialized' = FALSE
    /\ reconnectAttempts' = 0
    /\ quiet' = TRUE
    /\ op' = "none"
    /\ ret' = "disconnectOk"

\* disconnect() from `sock = null` on (341-352)
DisconnectAfterLogout(att) ==
    /\ sock' = 0
    /\ IF auth # "none"
       THEN /\ op' = "dRm"
            /\ ret' = "none"
            /\ UNCHANGED <<isConnected, phoneNumber, qrCodeData, isInitialized, quiet,
                           emitted>>
       ELSE DisconnectFinish(att)

\* disconnect() is invoked (333-338)
OpDisconnect ==
    /\ op = "none"
    /\ capReached' = FALSE
    /\ IF WsOpen(sock)
       THEN \E works \in BOOLEAN :
              /\ links' = LoggedOut(sock, works)
              /\ op' = IF works THEN "dLogout" ELSE "dLogoutThrows"
              /\ ret' = "none"
              /\ reconnectAttempts' = MAX_RECONNECT_ATTEMPTS
              /\ UNCHANGED <<sock, isConnected, phoneNumber, qrCodeData,
                             isInitialized, quiet, emitted>>
       ELSE /\ DisconnectAfterLogout(MAX_RECONNECT_ATTEMPTS)
            /\ IF auth # "none"
               THEN reconnectAttempts' = MAX_RECONNECT_ATTEMPTS
               ELSE TRUE
            /\ UNCHANGED links
    /\ UNCHANGED <<dispatchVars, monoVars, sideVars, isInitializing, timers, initTimers, auth, qrPending,
                   clearPending, initPc>>

\* the awaited sock.logout() of disconnect() settles (338); a throw ends
\* disconnect() in its catch (353-356)
DisconnectLogoutDone ==
    /\ op \in {"dLogout", "dLogoutThrows"}
    /\ IF op = "dLogoutThrows"
       THEN /\ op' = "none"
            /\ ret' = "disconnectFailed"
            /\ UNCHANGED <<sock, isConnected, phoneNumber, qrCodeData, isInitialized,
                           reconnectAttempts, quiet, emitted>>
       ELSE /\ DisconnectAfterLogout(reconnectAttempts)
            /\ IF auth # "none" THEN UNCHANGED reconnectAttempts ELSE TRUE
    /\ UNCHANGED <<dispatchVars, monoVars, sideVars, links, isInitializing, timers, initTimers, auth,
                   qrPending, clearPending, initPc, capReached>>

\* the awaited fs.promises.rm of disconnect() settles (345-352)
DisconnectRmDone ==
    /\ op = "dRm"
    /\ auth' = "none"
    /\ DisconnectFinish(reconnectAttempts)
    /\ UNCHANGED <<dispatchVars, monoVars, sideVars, sock, links, isInitializing, timers, initTimers,
                   qrPending, clearPending, initPc, capReached>>

\* `await initializeWhatsApp()` inside refreshQR / forceReconnect: the caller
\* waits (waiting) while the initialization it started runs
AwaitInit(conn, waiting) ==
    LET c == InitCall(isInitializing, conn) IN
    /\ isInitializing' = c.initing
    /\ initPc' = c.pc
    /\ op' = IF CanInit(isInitializing, conn) THEN waiting ELSE "none"
    /\ ret' = IF CanInit(isInitializing, conn) THEN "none" ELSE Returned(waiting)

\* refreshQR() is invoked (363-377)
OpRefreshQR ==
    /\ op = "none"
    /\ quiet' = FALSE
    /\ capReached' = FALSE
    /\ IF isConnected
       THEN /\ ret' = "refreshFailed"
            /\ UNCHANGED <<reconnectAttempts, op, isInitializing, initPc>>
       ELSE /\ reconnectAttempts' = 0
            /\ IF auth # "none"
               THEN /\ op' = "rRm"
                    /\ ret' = "none"
                    /\ UNCHANGED <<isInitializing, initPc>>
               ELSE AwaitInit(isConnected, "rInit")
    /\ UNCHANGED <<dispatchVars, monoVars, sideVars, emitted, isConnected, sock, links, qrCodeData, phoneNumber,
                   isInitialized, timers, initTimers, auth, qrPending, clearPending>>

\* the awaited fs.promises.rm of refreshQR() settles (373-377)
RefreshRmDone ==
    /\ op = "rRm"
    /\ auth' = "none"
    /\ AwaitInit(isConnected, "rInit")
    /\ UNCHANGED <<dispatchVars, monoVars, sideVars, emitted, isConnected, sock, links, qrCodeData, phoneNumber,
                   isInitialized, reconnectAttempts, timers, initTimers, qrPending,
                   clearPending, capReached, quiet>>

\* forceReconnect() from `sock = null` on (430-432); att is the value of
\* reconnectAttempts when resetConnectionState broadcasts
ForceAfterLogout(att) ==
    /\ sock' = 0
    /\ isConnected' = FALSE
    /\ phoneNumber' = FALSE
    /\ qrCodeData' = FALSE
    /\ emitted' = emitWhatsAppStatus(FALSE, FALSE, FALSE, att)
    /\ AwaitInit(FALSE, "fInit")

\* forceReconnect() is invoked (419-429)
OpForceReconnect ==
    /\ op = "none"
    /\ reconnectAttempts' = 0
    /\ quiet' = FALSE
    /\ capReached' = FALSE
    /\ IF sock # 0
       THEN \E works \in BOOLEAN :
              /\ links' = LoggedOut(sock, works)
              /\ op' = "fLogout"
              /\ ret' = "none"
              /\ UNCHANGED <<sock, isConnected, phoneNumber, qrCodeData,
                             isInitializing, initPc, emitted>>
       ELSE /\ ForceAfterLogout(0)
            /\ UNCHANGED links
    /\ UNCHANGED <<dispatchVars, monoVars, sideVars, isInitialized, timers, initTimers, auth, qrPending,
                   clearPending>>

\* the awaited sock.logout() of forceReconnect() settles; a throw is logged (424-432)
ForceLogoutDone ==
    /\ op = "fLogout"
    /\ ForceAfterLogout(reconnectAttempts)
    /\ UNCHANGED <<dispatchVars, monoVars, sideVars, links, isInitialized, reconnectAttempts, timers,
                   initTimers, auth, qrPending, clearPending, capReached,
                   quiet>>

\* a send that reaches the link whatever the session state
OpSendMessageBlind ==
    /\ ret' = "sendInvoked"
    /\ UNCHANGED <<dispatchVars, monoVars, sideVars, emitted, isConnected, sessVarsButRet>>

\* sendMessage(phone, message) / sendWhatsAppMessage (315-328; part_003
\* 484-523): with the session not connected or no socket it throws before
\* sock.sendMessage and returns the failure from its catch; otherwise
\* sock.sendMessage is invoked
OpSendMessage ==
    /\ ret' = IF ~isConnected \/ sock = 0 THEN "sendNotConnected" ELSE "sendInvoked"
    /\ UNCHANGED <<dispatchVars, monoVars, sideVars, emitted, isConnected, sessVarsButRet>>

SessionInit ==
    /\ SessionAtRest
    /\ SideAtRest
    /\ isConnected = FALSE
    /\ req = [r \in Reqs |-> IdleReq]
    /\ doc = [r \in Reqs |-> NoDoc]
    /\ logs = [r \in Reqs |-> NoLog]
    /\ resp = [r \in Reqs |-> 0]
    /\ hist = [r \in Reqs |-> NoHist]
    /\ settings = [exists |-> TRUE, api_key |-> StoredKey, max_daily_messages |-> 1]
    /\ priorLogs = [counted |-> 0]

\* the session manager under initialize, the connection events 'open' and
\* 'close', the reconnect timers and disconnect(); pairing codes, refreshQR()
\* and forceReconnect() are followed in AutoNext
SessionNext ==
    \/ OpInitialize
    \/ InitAuthDone
    \/ InitLogoutDone
    \/ \E i \in Links : LinkWsOpen(i)
    \/ \E i \in Links : LinkOpen(i)
    \/ \E i \in Links : LinkClose(i)
    \/ ClearAuthDone
    \/ TimerFire
    \/ InitTimerFire
    \/ OpDisconnect
    \/ DisconnectLogoutDone
    \/ DisconnectRmDone

SessionSpec == SessionInit /\ [][SessionNext]_vars

\* the session manager without disconnect(), so that reconnectAttempts
\* reaches the cap only by counting, and with the send calls of its clients
AutoNext ==
    \/ OpInitialize
    \/ InitAuthDone
    \/ InitLogoutDone
    \/ \E i \in Links : LinkWsOpen(i)
    \/ \E i \in Links : LinkQr(i)
    \/ QrRendered
    \/ \E i \in Links : LinkOpen(i)
    \/ \E i \in Links : LinkClose(i)
    \/ ClearAuthDone
    \/ TimerFire
    \/ InitTimerFire
    \/ OpRefreshQR
    \/ RefreshRmDone
    \/ OpForceReconnect
    \/ ForceLogoutDone
    \/ OpSendMessage

AutoSpec == SessionInit /\ [][AutoNext]_vars

\* ------------------------------------------------------------------------
\* Session manager of the monolithic server (part_003 180-187, 316-481,
\* 681-751)
\* ------------------------------------------------------------------------

\* what the monolithic server leaves alone: the state of services/whatsapp.js
\* it has no counterpart for, and the pipeline
monoFrame == <<dispatchVars, sideVars, emitted, isInitialized, reconnectAttempts, clearPending,
               capReached, quiet, ret>>

\* the synchronous start of part_003's initializeWhatsApp (317-331): the only
\* guard is isInitializing; a start clears the QR timer it holds the handle of
MonoInitCall(initing, timer) ==
    IF initing
    THEN [initing |-> TRUE, pc |-> initPc, timer |-> timer]
    ELSE [initing |-> TRUE, pc |-> "auth", timer |-> "null"]

\* makeWASocket and the registration of the handlers (346-460), finally (479)
MonoMakeSocket ==
    /\ HasFreeSlot
    /\ sock' = FreeSlot
    /\ links' = [links EXCEPT ![FreeSlot] = "connecting"]
    /\ isInitializing' = FALSE
    /\ initPc' = "idle"
    /\ op' = Released(op)

\* useMultiFileAuthState settles (334): the catch block (462-477) when it
\* throws, else the logout of an open socket (337-344) or makeWASocket
MonoAuthDone ==
    /\ initPc = "auth"
    /\ \E throws \in BOOLEAN, works \in BOOLEAN :
         IF throws
         THEN /\ isConnected' = FALSE
              /\ phoneNumber' = FALSE
              /\ qrCodeData' = FALSE
              /\ IF retryCount < MAX_RETRY_ATTEMPTS
                 THEN /\ CanSchedule
                      /\ retryCount' = retryCount + 1
                      /\ initTimers' = initTimers + 1
                 ELSE UNCHANGED <<retryCount, initTimers>>
              /\ isInitializing' = FALSE
              /\ initPc' = "idle"
              /\ op' = Released(op)
              /\ UNCHANGED <<sock, links, auth>>
         ELSE /\ auth' = IF auth = "none" THEN "fresh" ELSE auth
              /\ UNCHANGED <<isConnected, phoneNumber, qrCodeData, retryCount,
                             initTimers>>
              /\ IF WsOpen(sock)
                 THEN /\ links' = LoggedOut(sock, works)
                      /\ initPc' = "logout"
                      /\ UNCHANGED <<sock, isInitializing, op>>
                 ELSE MonoMakeSocket
    /\ UNCHANGED <<monoFrame, timers, qrPending, qrCodeTimer, qrLeaked>>

\* the awaited sock.logout() of initializeWhatsApp settles (339-343)
MonoLogoutDone ==
    /\ initPc = "logout"
    /\ MonoMakeSocket
    /\ UNCHANGED <<monoFrame, isConnected, qrCodeData, phoneNumber, timers,
                   initTimers, auth, qrPending, monoVars>>

\* QRCode.toDataURL settles (365-380): the QR is kept and its expiry timer
\* set, the handle of an earlier timer being overwritten; a throw is logged
MonoQrRendered ==
    /\ qrPending > 0
    /\ qrPending' = qrPending - 1
    /\ \E ok \in BOOLEAN :
         IF ok
         THEN /\ qrCodeData' = TRUE
              /\ qrCodeTimer = "armed" => qrLeaked < MaxLeaked
              /\ qrLeaked' = IF qrCodeTimer = "armed" THEN qrLeaked + 1 ELSE qrLeaked
              /\ qrCodeTimer' = "armed"
         ELSE UNCHANGED <<qrCodeData, qrCodeTimer, qrLeaked>>
    /\ UNCHANGED <<monoFrame, isConnected, sock, links, phoneNumber, isInitializing,
                   timers, initTimers, auth, initPc, op, retryCount>>

\* connection === 'open' (417-430)
MonoOpen(i) ==
    /\ links[i] = "pairing"
    /\ links' = [links EXCEPT ![i] = "linked"]
    /\ isConnected' = TRUE
    /\ IF sock > 0
       THEN phoneNumber' = (links'[sock] = "linked")
       ELSE phoneNumber' \in BOOLEAN
    /\ qrCodeData' = FALSE
    /\ retryCount' = 0
    /\ qrCodeTimer' = "null"
    /\ auth' = IF auth = "none" THEN "none" ELSE "paired"
    /\ UNCHANGED <<monoFrame, sock, isInitializing, timers, initTimers, qrPending,
                   initPc, op, qrLeaked>>

\* connection === 'close' (383-415)
MonoClose(i) ==
    /\ links[i] # "free"
    /\ \E reason \in CloseReasons :
         /\ links[i] = "loggingOut" => reason = "loggedOut"
         /\ IF reason # "loggedOut" /\ retryCount < MAX_RETRY_ATTEMPTS
            THEN /\ CanSchedule
                 /\ retryCount' = retryCount + 1
                 /\ timers' = timers + 1
            ELSE /\ retryCount' = 0
                 /\ UNCHANGED timers
    /\ links' = [links EXCEPT ![i] = "free"]
    /\ sock' = IF sock = i THEN -1 ELSE sock
    /\ isConnected' = FALSE
    /\ phoneNumber' = FALSE
    /\ qrCodeData' = FALSE
    /\ qrCodeTimer' = "null"
    /\ UNCHANGED <<monoFrame, isInitializing, initTimers, auth, qrPending, initPc,
                   op, qrLeaked>>

\* the reconnect timer of the close branch fires (404-408)
MonoTimerFire ==
    LET c == MonoInitCall(isInitializing, qrCodeTimer) IN
    /\ timers > 0
    /\ timers' = timers - 1
    /\ IF ~isInitializing /\ ~isConnected
       THEN /\ isInitializing' = c.initing
            /\ initPc' = c.pc
            /\ qrCodeTimer' = c.timer
       ELSE UNCHANGED <<isInitializing, initPc, qrCodeTimer>>
    /\ UNCHANGED <<monoFrame, isConnected, sock, links, qrCodeData, phoneNumber,
                   initTimers, auth, qrPending, op, retryCount, qrLeaked>>

\* the retry timer of initializeWhatsApp's catch fires (472-476)
MonoInitTimerFire ==
    LET c == MonoInitCall(isInitializing, qrCodeTimer) IN
    /\ initTimers > 0
    /\ initTimers' = initTimers - 1
    /\ IF ~isConnected
       THEN /\ isInitializing' = c.initing
            /\ initPc' = c.pc
            /\ qrCodeTimer' = c.timer
       ELSE UNCHANGED <<isInitializing, initPc, qrCodeTimer>>
    /\ UNCHANGED <<monoFrame, isConnected, sock, links, qrCodeData, phoneNumber,
                   timers, auth, qrPending, op, retryCount, qrLeaked>>

\* a QR expiry timer fires (370-376): the one qrCodeTimer holds (held) or one
\* whose handle was overwritten
MonoQrTimerFire ==
    \E held \in BOOLEAN :
      LET t == IF held THEN "fired" ELSE qrCodeTimer
          c == MonoInitCall(isInitializing, t)
      IN
      /\ IF held
         THEN qrCodeTimer = "armed" /\ UNCHANGED qrLeaked
         ELSE qrLeaked > 0 /\ qrLeaked' = qrLeaked - 1
      /\ qrCodeData' = FALSE
      /\ IF ~isConnected
         THEN /\ isInitializing' = c.initing
              /\ initPc' = c.pc
              /\ qrCodeTimer' = c.timer
         ELSE /\ qrCodeTimer' = t
              /\ UNCHANGED <<isInitializing, initPc>>
      /\ UNCHANGED <<monoFrame, isConnected, sock, links, phoneNumber, timers,
                     initTimers, auth, qrPending, op, retryCount>>

\* /api/whatsapp/refresh-qrcode from `retryCount = 0` on (741-746)
MonoRefreshAfterRm ==
    LET c == MonoInitCall(isInitializing, qrCodeTimer) IN
    /\ retryCount' = 0
    /\ qrCodeData' = FALSE
    /\ isInitializing' = c.initing
    /\ initPc' = c.pc
    /\ qrCodeTimer' = c.timer
    /\ op' = IF isInitializing THEN "none" ELSE "rInit"

\* POST /api/whatsapp/refresh-qrcode (723-739): 400 when connected, 409 when
\* initializing
MonoRefresh ==
    /\ op = "none"
    /\ IF isConnected \/ isInitializing
       THEN UNCHANGED <<op, retryCount, qrCodeData, isInitializing, initPc, qrCodeTimer>>
       ELSE IF auth # "none"
            THEN /\ op' = "rRm"
                 /\ UNCHANGED <<retryCount, qrCodeData, isInitializing, initPc,
                                qrCodeTimer>>
            ELSE MonoRefreshAfterRm
    /\ UNCHANGED <<monoFrame, isConnected, sock, links, phoneNumber, timers,
                   initTimers, auth, qrPending, qrLeaked>>

\* the awaited fsp.rm of refresh-qrcode settles (738-744)
MonoRefreshRmDone ==
    /\ op = "rRm"
    /\ auth' = "none"
    /\ MonoRefreshAfterRm
    /\ UNCHANGED <<monoFrame, isConnected, sock, links, phoneNumber, timers,
                   initTimers, qrPending, qrLeaked>>

\* the tail of /api/whatsapp/disconnect (693-706)
MonoDisconnectFinish ==
    /\ isConnected' = FALSE
    /\ phoneNumber' = FALSE
    /\ qrCodeData' = FALSE
    /\ retryCount' = 0
    /\ qrCodeTimer' = "null"
    /\ op' = "none"

\* /api/whatsapp/disconnect after its logout (688-692)
MonoDisconnectAfterLogout ==
    IF auth # "none"
    THEN /\ op' = "dRm"
         /\ UNCHANGED <<isConnected, phoneNumber, qrCodeData, retryCount, qrCodeTimer>>
    ELSE MonoDisconnectFinish

\* POST /api/whatsapp/disconnect (681-686)
MonoDisconnect ==
    /\ op = "none"
    /\ IF sock # 0
       THEN \E works \in BOOLEAN :
              /\ links' = LoggedOut(sock, works)
              /\ op' = IF works THEN "dLogout" ELSE "dLogoutThrows"
              /\ UNCHANGED <<isConnected, phoneNumber, qrCodeData, retryCount,
                             qrCodeTimer>>
       ELSE /\ MonoDisconnectAfterLogout
            /\ UNCHANGED links
    /\ UNCHANGED <<monoFrame, sock, isInitializing, timers, initTimers, auth,
                   qrPending, initPc, qrLeaked>>

\* the awaited sock.logout() of disconnect settles (685); a throw is answered
\* 500 by the catch (709-712)
MonoDisconnectLogoutDone ==
    /\ op \in {"dLogout", "dLogoutThrows"}
    /\ IF op = "dLogoutThrows"
       THEN /\ op' = "none"
            /\ UNCHANGED <<isConnected, phoneNumber, qrCodeData, retryCount,
                           qrCodeTimer>>
       ELSE MonoDisconnectAfterLogout
    /\ UNCHANGED <<monoFrame, sock, links, isInitializing, timers, initTimers, auth,
                   qrPending, initPc, qrLeaked>>

\* the awaited fsp.rm of disconnect settles (690-706)
MonoDisconnectRmDone ==
    /\ op = "dRm"
    /\ auth' = "none"
    /\ MonoDisconnectFinish
    /\ UNCHANGED <<monoFrame, sock, links, isInitializing, timers, initTimers,
                   qrPending, initPc, qrLeaked>>

\* the server two seconds after its start (1170-1173): the first
\* initializeWhatsApp() is at its await of useMultiFileAuthState
MonoInit ==
    /\ SideAtRest
    /\ sock = 0
    /\ links = [i \in 1..MaxLive |-> "free"]
    /\ qrCodeData = FALSE
    /\ phoneNumber = FALSE
    /\ isConnected = FALSE
    /\ isInitializing = TRUE
    /\ initPc = "auth"
    /\ retryCount = 0
    /\ qrCodeTimer = "null"
    /\ qrLeaked = 0
    /\ timers = 0
    /\ initTimers = 0
    /\ auth \in {"none", "paired"}
    /\ qrPending = 0
    /\ op = "none"
    /\ isInitialized = FALSE
    /\ reconnectAttempts = 0
    /\ clearPending = "none"
    /\ capReached = FALSE
    /\ quiet = FALSE
    /\ ret = "none"
    /\ req = [r \in Reqs |-> IdleReq]
    /\ doc = [r \in Reqs |-> NoDoc]
    /\ logs = [r \in Reqs |-> NoLog]
    /\ resp = [r \in Reqs |-> 0]
    /\ hist = [r \in Reqs |-> NoHist]
    /\ settings = [exists |-> TRUE, api_key |-> StoredKey, max_daily_messages |-> 1]
    /\ priorLogs = [counted |-> 0]

MonoNext ==
    \/ MonoAuthDone
    \/ MonoLogoutDone
    \/ \E i \in Links : LinkWsOpen(i)
    \/ \E i \in Links : LinkQr(i)
    \/ MonoQrRendered
    \/ \E i \in Links : MonoOpen(i)
    \/ \E i \in Links : MonoClose(i)
    \/ MonoTimerFire
    \/ MonoInitTimerFire
    \/ MonoQrTimerFire
    \/ MonoRefresh
    \/ MonoRefreshRmDone
    \/ MonoDisconnect
    \/ MonoDisconnectLogoutDone
    \/ MonoDisconnectRmDone

MonoSpec == MonoInit /\ [][MonoNext]_vars

\* ------------------------------------------------------------------------
\* Claims on the session manager
\* ------------------------------------------------------------------------

\* an initializeWhatsApp run starts in this step
InitStarts == ~isInitializing /\ isInitializing'

\* a reconnect is scheduled in this step
ReconnectScheduled == timers' > timers \/ initTimers' > initTimers

\* C6: once the reconnect cap has been reached, and as long as no operator
\* operation is invoked and no link is established, no step schedules a
\* reconnect or starts an initialization; and a step that lowers
\* reconnectAttempts is a link being established, an operator operation or the
\* cap being reached.
C6_NoReconnectAfterCap ==
    [][/\ (capReached /\ capReached') => (~ReconnectScheduled /\ ~InitStarts)
       /\ reconnectAttempts' < reconnectAttempts
            => \/ isConnected'
               \/ OpRefreshQR
               \/ OpForceReconnect
               \/ reconnectAttempts >= MAX_RECONNECT_ATTEMPTS]_vars

\* some close reason of credential loss is handled to its end in this step:
\* clearAuthAndRestart comes back from its rm, or there was no auth_info to
\* remove and a logged-out link closes
CredLossHandled ==
    \/ clearPending = "credLoss" /\ clearPending' = "none"
    \/ /\ auth = "none"
       /\ \E i \in Links : links[i] = "loggingOut" /\ links'[i] = "free"

\* C7: every handled close of reason loggedOut or badSession leaves the
\* credentials wiped and a reinitialization scheduled, whatever
\* reconnectAttempts is.
C7_CredLossAlwaysRestarts ==
    [][CredLossHandled => (auth' = "none" /\ timers' = timers + 1)]_vars

\* C8: at most one socket made by makeWASocket is neither closed nor logged
\* out.
C8_AtMostOneLink == Cardinality({i \in Links : Live(i)}) <= 1

\* C9: from a successful disconnect() until an operator invokes initialize,
\* refreshQR or forceReconnect, no step starts an initialization or schedules
\* a reconnect.
C9_QuietAfterDisconnect ==
    [][(quiet /\ quiet') => (~InitStarts /\ ~ReconnectScheduled)]_vars


\* the session state of the code: flags, counter, socket, links, credentials
\* and the position of the initialization in flight
sessionState == <<isConnected, phoneNumber, qrCodeData, reconnectAttempts, sock,
                  links, isInitializing, isInitialized, initPc, auth, qrPending,
                  clearPending>>

\* C16: a call of initializeWhatsApp() that returns at one of its guards was
\* made while an initialization was in flight or the session was connected,
\* and it created no socket, registered no handler (links unchanged) and left
\* isConnected, phoneNumber, qrCodeData, reconnectAttempts, the socket and the
\* rest of the session state unchanged, and scheduled no reconnect.
C16_GuardedInitIsNoOp ==
    [][ret' = "initSkipped"
          => /\ isInitializing \/ isConnected
             /\ UNCHANGED sessionState
             /\ timers' <= timers /\ initTimers' <= initTimers]_vars

\* an initializeWhatsApp() call returned at a guard, once with the session
\* connected (this state) and with links alive
C16_Witness == ret = "initSkipped" /\ isConnected /\ sock # 0

\* C16 on the monolithic server: no initialization starts in a step taken
\* while the session is connected, whoever calls initializeWhatsApp(), so no
\* socket is created and no state changed by such a call.
C16_NoInitWhileConnected ==
    [][(isConnected /\ ~isInitializing) => ~isInitializing']_vars

\* forceReconnect() is invoked in this step
ForceInvoked == op = "none" /\ (op' \in {"fLogout", "fInit"} \/ ret' = "forceOk")

\* C17: forceReconnect() invoked from any session state sets
\* reconnectAttempts to 0 and calls logout on the current socket if there is
\* one, and whenever it reports success it has started an initialization of
\* its own (it was waiting for that initialization when it returned).
C17_ForceReconnectRestarts ==
    [][/\ ForceInvoked
          => /\ reconnectAttempts' = 0
             /\ (sock # 0) => op' = "fLogout"
       /\ ret' = "forceOk" => op = "fInit"]_vars

\* C18: a refreshQR() that returns failure was called while connected and
\* left credentials, socket and session state unchanged; a refreshQR() called
\* while not connected has wiped the credential material before it
\* initializes, and whenever it reports success it has started an
\* initialization of its own (it was waiting for that initialization when it
\* returned).
C18_RefreshQRRestarts ==
    [][/\ ret' = "refreshFailed" => (isConnected /\ UNCHANGED sessionState)
       /\ (op = "none" /\ op' = "rInit") => (~isConnected /\ auth' = "none")
       /\ (op = "rRm" /\ op' # "rRm") => auth' = "none"
       /\ ret' = "refreshOk" => op = "rInit"]_vars

\* C19: a sendMessage / sendWhatsAppMessage call made while the session is
\* not connected, or while no socket exists, returns the not-connected
\* failure: sock.sendMessage is not invoked and the session state is
\* unchanged.
C19_SendNotConnectedFailsFast ==
    [][ret' \in {"sendNotConnected", "sendInvoked"}
          => /\ (~isConnected \/ sock = 0) => ret' = "sendNotConnected"
             /\ ret' = "sendNotConnected" => UNCHANGED <<sessionState, timers, initTimers>>]_vars

\* a send call returned the not-connected failure while an initialization
\* had already created a socket
C19_Witness == ret = "sendNotConnected" /\ ~isConnected /\ sock # 0

\* C20: when a store query of checkRateLimit throws, or no Settings row
\* exists, checkRateLimit returns allow whatever the day's count is; the rate
\* step of such a request never answers 429, and with a valid phone and
\* message it goes on to create the pending record and call its save, from
\* which delivery follows.
C20_RateCheckFailsOpen ==
    /\ [](/\ checkRateLimit(FALSE, settings, logs, priorLogs)
          /\ checkRateLimit(TRUE, [settings EXCEPT !.exists = FALSE], logs, priorLogs))
    /\ [][\A r \in Reqs :
            (RateStep(r) /\ hist'[r].rate = "error")
                => /\ resp'[r] # 429
                   /\ ~BadInput(r) => /\ req'[r].pc = "savePending"
                                       /\ doc'[r].status = "pending"
                                       /\ hist'[r].admitted]_vars
    /\ [](\A r \in Reqs : hist[r].rate = "error" => resp[r] # 429)

\* a request whose rate check threw while the day's quota was used up was
\* delivered and answered 200
C20_Witness ==
    \E r \in Reqs :
        /\ hist[r].rate = "error" /\ QuotaUsed > settings.max_daily_messages
        /\ hist[r].sent > 0 /\ resp[r] = 200 /\ logs[r].status = "success"

\* a handleConnectionUpdate run is suspended at its await of
\* QRCode.toDataURL or, through clearAuthAndRestart, of fs.promises.rm
HandlerSuspended == qrPending > 0 \/ clearPending # "none"

\* the suspended handler run resumes in this step
HandlerResumes ==
    \/ qrPending' < qrPending
    \/ clearPending # "none" /\ clearPending' = "none"

\* C21: connection-update events are handled one at a time: while the
\* handling of one event is suspended at its awaited QR rendering or its
\* awaited credential wipe, the only step taken is that handling resuming; no
\* other event is handled and no session operation runs in between.
C21_EventsRunToCompletion ==
    [][HandlerSuspended => HandlerResumes]_vars

\* C22: in every reachable state phoneNumber is set only while isConnected,
\* and qrCodeData is set only while not isConnected, also when the rendering
\* of a QR overlaps an open or a close event.
C22_IdentityAndQrExclusive ==
    /\ phoneNumber => isConnected
    /\ qrCodeData => ~isConnected

\* C23: in every reachable state 0 <= reconnectAttempts <=
\* MAX_RECONNECT_ATTEMPTS, whatever the interleaving of closes, reconnect
\* timers, failing initializations and disconnect().
C23_AttemptsWithinCap ==
    reconnectAttempts >= 0 /\ reconnectAttempts <= MAX_RECONNECT_ATTEMPTS

\* every request so far came through app.post('/api/send-otp') and none of
\* its store operations failed
AllQuotaChecked ==
    \A r \in Reqs : req[r].pc # "idle" => (req[r].handler = "api" /\ ~hist[r].fault)

\* C24: under concurrent /api/send-otp submissions whose store operations all
\* succeed, the number of today's records with status success or pending
\* never exceeds Settings.max_daily_messages.
C24_QuotaNeverExceeded ==
    AllQuotaChecked => QuotaUsed <= settings.max_daily_messages

FailedAfterRecord(r) ==
    /\ Ended(r) /\ req[r].handler = "api" /\ hist[r].pendingSaved
    /\ ~req[r].success \/ resp[r] >= 500

\* C26: for every fault after the pending record was created (send failure,
\* send timeout, exception while writing the terminal record) the persisted
\* record holds the error in error_message by the time the response is sent.
C26_PostRecordErrorsPersisted ==
    \A r \in Reqs :
        FailedAfterRecord(r)
            => (logs[r].exists /\ logs[r].error_message # "null")

\* the close of a logged-out link (reason loggedOut) is handled in this step
LoggedOutClosed == \E i \in Links : links[i] = "loggingOut" /\ links'[i] = "free"

\* C27: the handling of a link-closed event with reason loggedOut schedules
\* no automatic reconnect, neither directly nor through a credential wipe
\* that ends in one; the session is left for an operator to re-pair.
C27_LoggedOutIsTerminal ==
    [][/\ LoggedOutClosed => (~ReconnectScheduled /\ clearPending' = "none")
       /\ (clearPending = "credLoss" /\ clearPending' = "none") => ~ReconnectScheduled]_vars

\* a reconnect timer set by scheduleReconnect fires in this step
ReconnectTimerFires == timers' = timers - 1

\* C28: a reconnect timer that fires after the session has become connected,
\* or while an initialization is in flight, starts no initialization and
\* leaves reconnectAttempts and the rest of the session state unchanged.
C28_StaleTimerIsNoOp ==
    [][(ReconnectTimerFires /\ (isConnected \/ isInitializing))
          => (ret' = "timerSkipped" /\ UNCHANGED sessionState
              /\ initTimers' = initTimers)]_vars

\* a reconnect timer fired and did nothing while the session was connected
C28_Witness == ret = "timerSkipped" /\ isConnected /\ ~isInitializing

\* a connection 'open' event of some link is handled in this step
OpenHandled == \E i \in Links : links[i] = "pairing" /\ links'[i] = "linked"

\* C29: right after a connection 'open' event is handled isConnected is true,
\* qrCodeData is null and the reconnect counter is 0 (the values the status
\* snapshot is then broadcast with).
C29_OpenSettlesState ==
    [][OpenHandled => (isConnected' /\ ~qrCodeData' /\ reconnectAttempts' = 0)]_vars

\* a connection 'close' event of some link is handled in this step
CloseHandled == \E i \in Links : links[i] # "free" /\ links'[i] = "free"

\* QR expiry timers that are still set: the one qrCodeTimer holds the handle
\* of and those whose handle was overwritten
QrTimersSet == (IF qrCodeTimer = "armed" THEN 1 ELSE 0) + qrLeaked

\* C30: a QR expiry timer that fires while no link was established leaves an
\* initialization in flight; and a connection 'open' or 'close' event cancels
\* every QR expiry timer set before it, so that none is left to fire afterwards.
C30_QrTimerRestartsOrIsCancelled ==
    [][/\ (MonoQrTimerFire /\ ~isConnected) => isInitializing'
       /\ (OpenHandled \/ CloseHandled) => QrTimersSet' = 0]_vars

\* ------------------------------------------------------------------------
\* The phone number from the request to the JID (part_003 200-218, 493-494,
\* 872-896)
\* ------------------------------------------------------------------------
PhonePrefixes == {<<>>, <<"0">>, <<"6", "2">>, <<"+", "6", "2">>, <<"6">>,
                  <<"0", "0">>, <<"0", "-">>}

Pad(c, k) == [i \in 1..k |-> c]

\* req.body.phone: a prefix followed by up to MaxPad equal digits
PhoneInputs == {p \o Pad(c, k) : p \in PhonePrefixes, c \in {"8", "2"}, k \in 0..MaxPad}

\* part_003 873-880 and 890-896: the handler normalizes the phone, answers 400
\* when formatPhoneNumber throws, else stores the result in the record
PhoneValidate ==
    LET f == formatPhoneNumber(fmt.phone) IN
    /\ fmt.pc = "new"
    /\ fmt' = IF f.ok THEN [fmt EXCEPT !.pc = "stored", !.stored = f.v]
                      ELSE [fmt EXCEPT !.pc = "rejected"]
    /\ UNCHANGED <<dispatchVars, isConnected, sessVarsButRet, ret, emitted, io,
                   backoff, historyFile, saver, rows, writer, race>>

\* part_003 493-494: sendWhatsAppMessage normalizes the stored phone again
\* and builds the JID from the result
PhoneSend ==
    LET f == formatPhoneNumber(fmt.stored) IN
    /\ fmt.pc = "stored"
    /\ fmt' = [fmt EXCEPT !.pc = "sent", !.jid = f.v, !.jidOk = f.ok]
    /\ UNCHANGED <<dispatchVars, isConnected, sessVarsButRet, ret, emitted, io,
                   backoff, historyFile, saver, rows, writer, race>>

PhoneInit ==
    /\ ServerAtRest
    /\ EmitAtRest /\ BackoffAtRest /\ HistoryAtRest /\ SettingsAtRest /\ RaceAtRest
    /\ \E p \in PhoneInputs : fmt = [NoFmt EXCEPT !.pc = "new", !.phone = p]

PhoneNext == PhoneValidate \/ PhoneSend

PhoneSpec == PhoneInit /\ [][PhoneNext]_vars

AllDigits(s) == \A i \in 1..Len(s) : IsDigit(s[i])

\* C40: formatPhoneNumber maps each of its outputs to itself and every output
\* has 10 to 15 digits, so the number the JID is built from when a message is
\* sent is the phone stored in the request's record.
C40_NormalizedPhoneIsFixpoint ==
    /\ fmt.pc \in {"stored", "sent"}
          => /\ AllDigits(fmt.stored)
             /\ Len(fmt.stored) >= MinPhoneDigits /\ Len(fmt.stored) <= MaxPhoneDigits
             /\ formatPhoneNumber(fmt.stored) = [ok |-> TRUE, v |-> fmt.stored]
    /\ fmt.pc = "sent" => (fmt.jidOk /\ fmt.jid = fmt.stored)

\* a local number written with a leading zero and a separator was stored with
\* the country code and sent to the same number
C40_Witness ==
    /\ fmt.pc = "sent" /\ fmt.jid = fmt.stored
    /\ StartsWith(fmt.phone, <<"0", "-">>) /\ StartsWith(fmt.stored, <<"6", "2", "8">>)

\* ------------------------------------------------------------------------
\* The delay of an automatic reconnect (services/whatsapp.js 158-200,
\* 265-293; part_003 400-408)
\* ------------------------------------------------------------------------
Variants == {"service", "monolith"}

\* the closes each server answers with a reconnect timer and the attempt
\* counts it does so at
Reconnecting(variant, reason, attempts) ==
    IF variant = "service"
    THEN attempts < MAX_RECONNECT_ATTEMPTS
    ELSE reason # "loggedOut" /\ attempts < MAX_RETRY_ATTEMPTS

\* services/whatsapp.js 165-199 with 289-292: the delay handed to
\* scheduleReconnect for a close with this reason at this attempt count
serviceReconnectDelay(reason, attempts) ==
    IF reason \in CredLoss THEN 2000
    ELSE IF reason = "restartRequired" THEN 1000
    ELSE IF reason = "streamError515"
    THEN IF attempts >= MAX_RECONNECT_ATTEMPTS \div 2 THEN 2000 ELSE 3000
    ELSE 5000

\* part_003 400-408: retryCount++ and then RECONNECT_DELAY * retryCount
monoReconnectDelay(reason, retries) == RECONNECT_DELAY * (retries + 1)

reconnectDelay(variant, reason, attempts) ==
    IF variant = "service" THEN serviceReconnectDelay(reason, attempts)
                           ELSE monoReconnectDelay(reason, attempts)

\* the delays of two closes with the same reason are computed
BackoffCompute ==
    /\ backoff.pc = "new"
    /\ backoff' = [backoff EXCEPT
                     !.pc = "done",
                     !.firstDelay = reconnectDelay(backoff.variant, backoff.reason, backoff.first),
                     !.laterDelay = reconnectDelay(backoff.variant, backoff.reason, backoff.later)]
    /\ UNCHANGED <<dispatchVars, isConnected, sessVarsButRet, ret, emitted, io,
                   fmt, historyFile, saver, rows, writer, race>>

BackoffInit ==
    /\ ServerAtRest
    /\ EmitAtRest /\ FmtAtRest /\ HistoryAtRest /\ SettingsAtRest /\ RaceAtRest
    /\ \E v \in Variants, reason \in CloseReasons,
          a \in 0..MAX_RECONNECT_ATTEMPTS, b \in 0..MAX_RECONNECT_ATTEMPTS :
         /\ a <= b
         /\ Reconnecting(v, reason, a) /\ Reconnecting(v, reason, b)
         /\ backoff = [NoBackoff EXCEPT !.pc = "new", !.variant = v, !.reason = reason,
                                        !.first = a, !.later = b]

BackoffNext == BackoffCompute

BackoffSpec == BackoffInit /\ [][BackoffNext]_vars

\* the largest delay either server uses
MaxReconnectDelay == RECONNECT_DELAY * MAX_RETRY_ATTEMPTS

\* the last attempt count at which a reconnect is still scheduled
LastAttempt(variant) ==
    IF variant = "service" THEN MAX_RECONNECT_ATTEMPTS - 1 ELSE MAX_RETRY_ATTEMPTS - 1

\* C34: the delay before the automatic reconnect after a transient close does
\* not decrease with the attempt count, is larger at the last attempt than at
\* the first one, and never exceeds a fixed maximum.
C34_DelayGrowsWithAttempts ==
    (backoff.pc = "done" /\ backoff.reason = "transient")
        => /\ backoff.firstDelay <= backoff.laterDelay
           /\ backoff.laterDelay <= MaxReconnectDelay
           /\ (backoff.first = 0 /\ backoff.later = LastAttempt(backoff.variant))
                 => backoff.firstDelay < backoff.laterDelay

\* ------------------------------------------------------------------------
\* The login history file (services/whatsapp.js 440-479)
\* ------------------------------------------------------------------------
\* entries are numbered in the order in which their calls were made
Descending(n) == [i \in 1..n |-> n + 1 - i]

HistoryLengths == {0, 1, MAX_HISTORY - 1, MAX_HISTORY}

\* a cap that keeps the tail of the list
capHistoryTail(history) ==
    IF Len(history) > MAX_HISTORY THEN SubSeq(history, 2, Len(history)) ELSE history

\* if (history.length > 1000) history = history.slice(0, 1000) (458)
capHistory(history) ==
    IF Len(history) > MAX_HISTORY THEN SubSeq(history, 1, MAX_HISTORY) ELSE history

\* history.unshift(entry) and the cap (456-458)
withEntry(entry, history) == capHistory(<<entry>> \o history)

\* getLoginHistory(limit, offset) (468-479): history.slice(offset, offset + limit)
getLoginHistory(limit, offset) ==
    IF offset >= Len(historyFile) THEN <<>>
    ELSE SubSeq(historyFile, offset + 1,
                IF offset + limit > Len(historyFile) THEN Len(historyFile)
                                                     ELSE offset + limit)

InFlight(c) == saver[c].pc # "idle"

\* the number of the next entry
NextEntry ==
    LET made == {saver[c].entry : c \in Savers} \cup {0}
        top == CHOOSE m \in made : \A n \in made : n <= m
        stored == IF Len(historyFile) = 0 THEN 0 ELSE historyFile[1]
    IN  1 + (IF top > stored THEN top ELSE stored)

\* saveLoginHistory(entry) is called (446-451): with no file the list is the
\* entry alone and writeFile is awaited, else readFile is awaited
SaveCall(c) ==
    LET meets == \E d \in Savers : d # c /\ InFlight(d) IN
    /\ saver[c].pc = "idle"
    /\ saver[c].calls < MaxSaves
    /\ saver' = [d \in Savers |->
                   IF d = c
                   THEN [saver[c] EXCEPT
                           !.pc = IF Len(historyFile) = 0 THEN "writing" ELSE "reading",
                           !.entry = NextEntry,
                           !.local = IF Len(historyFile) = 0 THEN <<NextEntry>> ELSE <<>>,
                           !.calls = @ + 1,
                           !.overlapped = @ \/ meets,
                           !.readAtCap = FALSE]
                   ELSE [saver[d] EXCEPT !.overlapped = @ \/ InFlight(d)]]
    /\ UNCHANGED <<dispatchVars, isConnected, sessVarsButRet, ret, emitted, io,
                   fmt, backoff, historyFile, rows, writer, race>>

\* readFile and JSON.parse settle (449-455): a throw leaves the empty list;
\* the entry is put in front and the list cut, writeFile is awaited (456-459)
SaveRead(c) ==
    /\ saver[c].pc = "reading"
    /\ \E readOk \in BOOLEAN :
         LET history == IF readOk THEN historyFile ELSE <<>> IN
         saver' = [saver EXCEPT ![c].pc = "writing",
                                ![c].local = withEntry(saver[c].entry, history),
                                ![c].readAtCap = Len(history) = MAX_HISTORY]
    /\ UNCHANGED <<dispatchVars, isConnected, sessVarsButRet, ret, emitted, io,
                   fmt, backoff, historyFile, rows, writer, race>>

\* writeFile settles (459): the file holds the caller's list and the call
\* has completed, or the call throws
SaveWritten(c) ==
    /\ saver[c].pc = "writing"
    /\ \E writeOk \in BOOLEAN :
         IF writeOk
         THEN /\ historyFile' = saver[c].local
              /\ saver' = [saver EXCEPT ![c].pc = "idle",
                                        ![c].saved = @ \cup {saver[c].entry}]
         ELSE /\ saver' = [saver EXCEPT ![c].pc = "idle"]
              /\ UNCHANGED historyFile
    /\ UNCHANGED <<dispatchVars, isConnected, sessVarsButRet, ret, emitted, io,
                   fmt, backoff, rows, writer, race>>

HistoryInit ==
    /\ ServerAtRest
    /\ EmitAtRest /\ FmtAtRest /\ BackoffAtRest /\ SettingsAtRest /\ RaceAtRest
    /\ \E n \in HistoryLengths : historyFile = Descending(n)
    /\ saver = [c \in Savers |-> IdleSaver]

HistoryNext ==
    \/ \E c \in Savers : SaveCall(c)
    \/ \E c \in Savers : SaveRead(c)
    \/ \E c \in Savers : SaveWritten(c)

HistorySpec == HistoryInit /\ [][HistoryNext]_vars

NewestFirst(history) == \A i \in 1..(Len(history) - 1) : history[i] > history[i + 1]

NeverOverlapped == \A c \in Savers : ~saver[c].overlapped

\* the call of c completes in this step
Completes(c) == saver[c].pc = "writing" /\ saver[c].entry \in saver'[c].saved

\* C35: after any sequence of saveLoginHistory calls made one after another
\* the stored history has at most 1000 entries and is ordered newest first,
\* with the entry of the last completed call in front (what getLoginHistory
\* returns first), and a call that found 1000 entries stored leaves its own
\* entry followed by the 999 newest of them: exactly the oldest one is dropped.
C35_HistoryCappedNewestFirst ==
    [][/\ Len(historyFile') <= MAX_HISTORY
       /\ NeverOverlapped' => NewestFirst(historyFile')
       /\ \A c \in Savers :
            (Completes(c) /\ NeverOverlapped)
                => /\ getLoginHistory(1, 0)' = <<saver[c].entry>>
                   /\ saver[c].readAtCap
                         => historyFile' = <<saver[c].entry>>
                                           \o SubSeq(historyFile, 1, MAX_HISTORY - 1)]_vars

\* a call found the file at its cap and completed alone: its entry is first
\* and the entry that was the oldest is gone
C35_Witness ==
    /\ NeverOverlapped
    /\ Len(historyFile) = MAX_HISTORY
    /\ historyFile[1] = MAX_HISTORY + 1
    /\ historyFile[MAX_HISTORY] = 2
    /\ \E c \in Savers : MAX_HISTORY + 1 \in saver[c].saved

\* the entry is in the stored history
Stored(e) == \E i \in 1..Len(historyFile) : historyFile[i] = e

\* the stored history is full of entries newer than e
Evicted(e) == Len(historyFile) = MAX_HISTORY /\ historyFile[MAX_HISTORY] > e

\* C39: with saveLoginHistory calls running concurrently, every entry whose
\* call has completed is in the stored history unless the 1000-entry cap has
\* evicted it.
C39_NoLostHistoryEntry ==
    \A c \in Savers : \A e \in saver[c].saved : Stored(e) \/ Evicted(e)

\* ------------------------------------------------------------------------
\* The Settings row (part_003 770-835, 1152-1168)
\* ------------------------------------------------------------------------
\* writer 1 is startApplication, the others are requests
Startup == 1

WriterKinds(w) == IF w = Startup THEN {"startup"}
                  ELSE {"settings", "settingsWithKey", "generate"}

\* generateApiKey() (196-198) gives each caller a key of its own; a key sent
\* in the body of POST /api/settings is the same for every request
KeyOf(w, kind) == IF kind = "settingsWithKey" THEN BodyKey ELSE w

\* the handler is entered and awaits Settings.findOne() (783, 820, 1158)
WriterFind(w) ==
    /\ writer[w].pc = "idle"
    /\ \E kind \in WriterKinds(w) :
         writer' = [writer EXCEPT ![w] = [pc |-> "finding", kind |-> kind,
                                          key |-> KeyOf(w, kind), found |-> NoKey]]
    /\ UNCHANGED <<dispatchVars, isConnected, sessVarsButRet, ret, emitted, io,
                   fmt, backoff, historyFile, saver, rows, race>>

\* Settings.findOne() settles: a throw ends the handler in its catch; with a
\* row startApplication is done and a request awaits the save of the row it
\* changed, without one a new Settings is made and its save awaited
WriterFound(w) ==
    /\ writer[w].pc = "finding"
    /\ \E storeUp \in BOOLEAN :
         IF ~storeUp
         THEN writer' = [writer EXCEPT ![w].pc = "failed"]
         ELSE IF rows = {}
         THEN writer' = [writer EXCEPT ![w].pc = "saving"]
         ELSE \E row \in rows :
                writer' = [writer EXCEPT
                             ![w].pc = IF writer[w].kind = "startup" THEN "done"
                                                                     ELSE "saving",
                             ![w].found = row]
    /\ UNCHANGED <<dispatchVars, isConnected, sessVarsButRet, ret, emitted, io,
                   fmt, backoff, historyFile, saver, rows, race>>

\* save() of a new Settings: the unique index on api_key refuses a key that a
\* row already has
Insert(key) == rows \cup {key}

\* save() of the row that was found: only a request that sets api_key
\* changes the key of the row
Update(row, kind, key) ==
    IF kind = "settings" \/ row \notin rows THEN rows
    ELSE (rows \ {row}) \cup {key}

\* settings.save() settles (790, 797, 823, 829, 1166)
WriterSaved(w) ==
    LET x == writer[w] IN
    /\ x.pc = "saving"
    /\ \E storeUp \in BOOLEAN :
         IF ~storeUp
         THEN /\ writer' = [writer EXCEPT ![w].pc = "failed"]
              /\ UNCHANGED rows
         ELSE IF x.found = NoKey
         THEN IF x.key \in rows
              THEN /\ writer' = [writer EXCEPT ![w].pc = "failed"]
                   /\ UNCHANGED rows
              ELSE /\ rows' = Insert(x.key)
                   /\ writer' = [writer EXCEPT ![w].pc = "done"]
         ELSE IF x.kind # "settings" /\ x.key \in rows \ {x.found}
         THEN /\ writer' = [writer EXCEPT ![w].pc = "failed"]
              /\ UNCHANGED rows
         ELSE /\ rows' = Update(x.found, x.kind, x.key)
              /\ writer' = [writer EXCEPT ![w].pc = "done"]
    /\ UNCHANGED <<dispatchVars, isConnected, sessVarsButRet, ret, emitted, io,
                   fmt, backoff, historyFile, saver, race>>

\* a fresh database or one that holds the row of an earlier run
SettingsInit ==
    /\ ServerAtRest
    /\ EmitAtRest /\ FmtAtRest /\ BackoffAtRest /\ HistoryAtRest /\ RaceAtRest
    /\ rows \in {{}, {DeployedKey}}
    /\ writer = [w \in Writers |-> IdleWriter]

SettingsNext ==
    \/ \E w \in Writers : WriterFind(w)
    \/ \E w \in Writers : WriterFound(w)
    \/ \E w \in Writers : WriterSaved(w)

SettingsSpec == SettingsInit /\ [][SettingsNext]_vars

\* C36: whatever the interleaving of settings writes, API-key generation
\* requests and the creation of the default settings at startup, the
\* collection never holds more than one Settings row, and a row is added
\* only when there is none.
C36_SingleSettingsRow ==
    [][/\ Cardinality(rows') <= 1
       /\ Cardinality(rows') > Cardinality(rows) => rows = {}]_vars

\* ------------------------------------------------------------------------
\* The race of sendWhatsAppMessage (part_003 484-523)
\* ------------------------------------------------------------------------
\* a settlement that hands its result to the caller whenever it happens
SettleLate(x, by, result) == [x EXCEPT !.pc = "returned", !.result = result,
                                       !.first = IF @ = "none" THEN by ELSE @]

\* the race settles for a call that awaits it: sendWhatsAppMessage returns
\* (505-521); a call that has returned is not touched
Settle(x, by, result) ==
    IF x.pc = "racing"
    THEN [x EXCEPT !.pc = "returned", !.result = result, !.first = by]
    ELSE x

\* sendWhatsAppMessage is called (484-503): not connected it throws into its
\* catch, else sock.sendMessage is invoked, the timeout timer set and the
\* race awaited
RaceStart(c) ==
    /\ race[c].pc = "idle"
    /\ \E connected \in BOOLEAN :
         race' = [race EXCEPT ![c] =
                    IF connected
                    THEN [@ EXCEPT !.pc = "racing", !.send = "pending", !.timer = "armed"]
                    ELSE [@ EXCEPT !.pc = "returned", !.result = "notConnected"]]
    /\ UNCHANGED <<dispatchVars, isConnected, sessVarsButRet, ret, emitted, io,
                   fmt, backoff, historyFile, saver, rows, writer>>

\* sock.sendMessage resolves
SendResolves(c) ==
    /\ race[c].send = "pending"
    /\ race' = [race EXCEPT ![c] = Settle([@ EXCEPT !.send = "resolved"], "send", "ok")]
    /\ UNCHANGED <<dispatchVars, isConnected, sessVarsButRet, ret, emitted, io,
                   fmt, backoff, historyFile, saver, rows, writer>>

\* sock.sendMessage rejects
SendRejects(c) ==
    /\ race[c].send = "pending"
    /\ race' = [race EXCEPT ![c] = Settle([@ EXCEPT !.send = "rejected"], "send", "error")]
    /\ UNCHANGED <<dispatchVars, isConnected, sessVarsButRet, ret, emitted, io,
                   fmt, backoff, historyFile, saver, rows, writer>>

\* the setTimeout of 499-501 fires after MESSAGE_TIMEOUT and rejects the
\* timeout promise; nothing clears the timer before
RaceTimerFires(c) ==
    /\ race[c].timer = "armed"
    /\ race' = [race EXCEPT ![c] = Settle([@ EXCEPT !.timer = "fired"], "timer", "timeout")]
    /\ UNCHANGED <<dispatchVars, isConnected, sessVarsButRet, ret, emitted, io,
                   fmt, backoff, historyFile, saver, rows, writer>>

RaceInit ==
    /\ ServerAtRest
    /\ EmitAtRest /\ FmtAtRest /\ BackoffAtRest /\ HistoryAtRest /\ SettingsAtRest
    /\ race = [c \in Calls |-> IdleCall]

RaceNext ==
    \/ \E c \in Calls : RaceStart(c)
    \/ \E c \in Calls : SendResolves(c)
    \/ \E c \in Calls : SendRejects(c)
    \/ \E c \in Calls : RaceTimerFires(c)

RaceSpec == RaceInit /\ [][RaceNext]_vars

\* the result of a call agrees with what settled first
DecidedByFirst(x) ==
    /\ x.result = "ok" => (x.first = "send" /\ x.send = "resolved")
    /\ x.result = "error" => (x.first = "send" /\ x.send = "rejected")
    /\ x.result = "timeout" => (x.first = "timer" /\ x.timer = "fired")

\* C32: the outcome of a send attempt is the one of whichever of send
\* success, send failure and the message timeout settles first, and once the
\* attempt is decided a send that completes or fails later (or a timer that
\* fires later) does not change what the handler was handed, from which it
\* writes the record, the retry count and the response.
C32_FirstSettlementDecides ==
    [][\A c \in Calls :
          /\ race'[c].pc = "returned" => DecidedByFirst(race'[c])
          /\ race[c].pc = "returned"
                => (race'[c].pc = "returned" /\ race'[c].result = race[c].result)]_vars

\* the timeout decided an attempt whose send completed afterwards
C32_Witness ==
    \E c \in Calls :
        /\ race[c].pc = "returned" /\ race[c].result = "timeout"
        /\ race[c].send = "resolved"

\* C33: once the race of a send attempt has resolved, no timeout timer of
\* that attempt is still set.
C33_NoTimerAfterRace ==
    \A c \in Calls : race[c].pc = "returned" => race[c].timer # "armed"

\* ------------------------------------------------------------------------
\* Further claims on the session manager of services/whatsapp.js
\* ------------------------------------------------------------------------
\* the socket the module holds has reported 'open' and not 'close' since
CurrentSocketOpen == sock > 0 /\ links[sock] = "linked"

\* an event of a socket that is not the one the module holds is handled
SupersededEvent ==
    \E i \in Links : i # sock /\ links[i] # "free" /\ links'[i] # links[i]
                     /\ links'[i] \in {"linked", "free"}

\* C37: connection events of a socket that has been superseded (replaced by
\* a later initializeWhatsApp or dropped by forceReconnect) do not change the
\* session state, and whenever no operation is in progress isConnected is
\* true exactly if the current socket has reported 'open' and not 'close'
\* since (a socket on which logout was called is left out of the comparison).
C37_StateFollowsCurrentSocket ==
    [][/\ SupersededEvent
          => UNCHANGED <<isConnected, phoneNumber, qrCodeData, reconnectAttempts>>
       /\ (op' = "none" /\ initPc' = "idle" /\ ~(sock' > 0 /\ links'[sock'] = "loggingOut"))
          => (isConnected' <=> CurrentSocketOpen')]_vars

\* ------------------------------------------------------------------------
\* 'whatsapp-status' broadcasts of the session manager
\* (services/whatsapp.js 19-38)
\* ------------------------------------------------------------------------
\* the module after prepareWhatsApp(io) attached the Socket.IO instance
\* (36-38), before any operation
EmitInit ==
    /\ ServerAtRest
    /\ io = TRUE
    /\ emitted = FirstSnapshot
    /\ FmtAtRest
    /\ BackoffAtRest
    /\ HistoryAtRest
    /\ SettingsAtRest
    /\ RaceAtRest

\* initialization, the connection events 'open' and 'close', the reconnect
\* timers and disconnect(); no pairing code is issued, so that qrCodeData
\* stays null
EmitNext ==
    \/ OpInitialize
    \/ InitAuthDone
    \/ InitLogoutDone
    \/ \E i \in Links : LinkWsOpen(i)
    \/ \E i \in Links : LinkOpen(i)
    \/ \E i \in Links : LinkClose(i)
    \/ ClearAuthDone
    \/ TimerFire
    \/ InitTimerFire
    \/ OpDisconnect
    \/ DisconnectLogoutDone
    \/ DisconnectRmDone

EmitSpec == EmitInit /\ [][EmitNext]_vars

\* no operation, timer callback or event handler is between two of its steps
NoHandlerRunning ==
    /\ op = "none"
    /\ initPc = "idle"
    /\ qrPending = 0
    /\ clearPending = "none"

\* C31: whenever the operations, timer callbacks and event handlers of the
\* session manager have finished, the last 'whatsapp-status' broadcast agrees
\* with getStatus() on connected, phone_number, qr_available and
\* reconnect_attempts.
C31_BroadcastAgreesWithStatus ==
    (io /\ NoHandlerRunning) => emitted = getStatus

\* ------------------------------------------------------------------------
\* Termination of POST /api/send-otp (part_003 844-990)
\* ------------------------------------------------------------------------
\* a step of the monolithic server's handler for request r: each of its
\* awaits settles (the store and the webhook have timeouts, the send is raced
\* against MESSAGE_TIMEOUT, the pauses between attempts are timers)
ApiStep(r) ==
    /\ req[r].handler = "api"
    /\ \/ ApiAuth(r)
       \/ RateCheck(r)
       \/ SavePending(r)
       \/ SendSettle(r)
       \/ Sleep(r)
       \/ SaveFinal(r)
       \/ SaveNC(r)
       \/ SaveCatch(r)
       \/ Webhook(r)

\* the requests followed to their end; the others stay unsent, their effect
\* on the rate limit being that of the earlier records of the day
TermReqs == {1}

ApiProgress == \E r \in TermReqs : ApiStep(r)

TermNext ==
    \/ \E r \in TermReqs : Submit(r)
    \/ \E r \in TermReqs : ApiAuth(r)
    \/ \E r \in TermReqs : RouteAuth(r)
    \/ \E r \in TermReqs : RateCheck(r)
    \/ \E r \in TermReqs : SavePending(r)
    \/ \E r \in TermReqs : SendSettle(r)
    \/ \E r \in TermReqs : Sleep(r)
    \/ \E r \in TermReqs : SaveFinal(r)
    \/ \E r \in TermReqs : SaveNC(r)
    \/ \E r \in TermReqs : SaveCatch(r)
    \/ \E r \in TermReqs : Webhook(r)
    \/ LinkFlip

TermSpec == Init /\ [][TermNext]_vars /\ WF_vars(ApiProgress)

\* C38: every request to /api/send-otp gets exactly one response: a request
\* that has been received is eventually answered, it makes at most
\* MAX_RETRY_ATTEMPTS + 1 send attempts, and once the response is sent the
\* handler does nothing more (no second response).
C38_ExactlyOneResponse ==
    /\ \A r \in Reqs :
         (req[r].pc # "idle" /\ req[r].handler = "api") ~> Ended(r)
    /\ [][\A r \in Reqs :
            /\ hist'[r].sent <= MAX_RETRY_ATTEMPTS + 1
            /\ req'[r].pc = "done" => Ended(r)'
            /\ Ended(r) => (resp'[r] = resp[r] /\ req'[r] = req[r])]_vars

\* a request was answered after its last send attempt had failed
C38_Witness ==
    \E r \in Reqs :
        /\ req[r].handler = "api" /\ resp[r] = 500
        /\ hist[r].sent = MAX_RETRY_ATTEMPTS + 1

============================================================================
